---- MODULE Spec2Model ----
(***************************************************************************)
(* Model of the Teams SSO bot: the token broker of the enhanced TeamsBot   *)
(* (storeUserContext / getTokenForUser over userContextMap) and the        *)
(* background task scheduler of bots/teamsBot.js (scheduleBackgroundTask / *)
(* runBackgroundTasks / executeBackgroundTask over backgroundTasks).       *)
(*                                                                         *)
(* JavaScript is single threaded: every action below is one synchronous    *)
(* run of code between two await points.  An await on an external          *)
(* collaborator (adapter, token service, connector) is a position (pc) of  *)
(* the suspended call; the collaborator's answer is drawn with \E.         *)
(***************************************************************************)
EXTENDS Integers, Sequences, FiniteSets, TLC

\* ------------------------------------------------------------------ bounds
MaxTime == 1          \* the clock (new Date) of the broker runs 0..MaxTime
MaxSchedTime == 2     \* the clock (Date.now) of the scheduler runs 0..MaxSchedTime
MaxCalls == 2         \* getTokenForUser invocations per behaviour
MaxSchedules == 3     \* scheduleBackgroundTask calls per behaviour
MaxTicks == 2         \* runBackgroundTasks invocations per behaviour
MaxStores == 2        \* storeUserContext calls that create a context object
MaxRequestLen == 4    \* length of the userIds array of a batch request
MaxOps == 3           \* ContextStorage data operations per behaviour
MaxRuns == 2          \* times the main dialog is begun

Users == {"u1", "u2"}
Convs == {"c1"}
Channels == {"msteams"}
NoId == "noId"                 \* activity.from.id missing
NoConv == "noConv"             \* activity.conversation missing
ConnectionName == "oauth"      \* process.env.connectionName
Undefined == -1                \* a timestamp field that was never assigned
NoStatus == "undefined"        \* tokenStatus never assigned
NoObj == 0                     \* userContextMap has no entry

\* 'Maximum 50 users per batch request', in array elements
MaxUsersPerBatch == 3

\* the invocations of getTokenForUser that can be in flight together; an
\* invocation whose result was taken by its caller frees its slot
CallIds == {1, 2}
TickIds == 1..MaxTicks
DelayMs == 1                   \* handleScheduleCommand: 5 * 60 * 1000 ms, in clock steps

VARIABLES
    now,             \* wall clock
    caps,            \* capabilities the runtime exposes on a proactive turn
    heap,            \* the userContext objects ever created (index = identity)
    userContextMap,  \* TeamsBot.userContextMap: userId -> object identity
    calls,           \* getTokenForUser invocations and their positions
    ncalls,          \* number of getTokenForUser invocations so far
    storeLog,        \* history: the last storeUserContext call that was
                     \* observed, and how it ended
    backgroundTasks, \* TeamsBot.backgroundTasks: taskId -> task
    ticks,           \* runBackgroundTasks invocations and their positions
    attempts,        \* history: executeBackgroundTask calls per taskId
    trace,           \* history: per taskId, what getValidToken answered in
                     \* its execution and what the callback then called;
                     \* after the execution, how executeBackgroundTask ended
    nsched,          \* history: number of scheduleBackgroundTask calls
    batch,           \* the POST /api/tokens/batch request being served
    routed,          \* history: the last message turn and where onMessage
                     \* sent it
    isConnected,     \* ContextStorage.isConnected
    collection,      \* the MongoDB collection: userId -> document (the
                     \* unique index on userId is created by initialize)
    dbcalls,         \* ContextStorage operations and their positions
    nops,            \* number of ContextStorage operations so far
    dialog,          \* the main dialog of one conversation: its position,
                     \* what it sent and which directory calls it made
    http,            \* the HTTP request being handled and its response
    svc              \* a getUserProfile / validateUserToken invocation

\* what the broker and the scheduler do not touch: the endpoint state and
\* the history of the message dispatch
storageVars == <<isConnected, collection, dbcalls, nops>>
frontVars == <<dialog, http, svc>>
sideVars == <<batch, routed, storageVars, frontVars>>
brokerVars == <<caps, heap, userContextMap, calls, ncalls, storeLog, sideVars>>
schedVars == <<backgroundTasks, ticks, attempts, trace, nsched>>
botVars == <<now, caps, heap, userContextMap, calls, ncalls, storeLog, schedVars>>
vars == <<now, caps, heap, userContextMap, calls, ncalls, storeLog, backgroundTasks, ticks, attempts, trace, nsched, batch, routed, isConnected, collection, dbcalls, nops, dialog, http, svc>>

\* ------------------------------------------------------------ the clock
AdvanceClock ==
    /\ now < MaxTime
    /\ now' = now + 1
    /\ UNCHANGED <<brokerVars, schedVars>>

SchedAdvanceClock ==
    /\ now < MaxSchedTime
    /\ now' = now + 1
    /\ UNCHANGED <<brokerVars, schedVars>>

\* ------------------------------------------------- conversation contexts
\* TurnContext.getConversationReference(activity): routing record copied
\* from the inbound activity; activityId is the id of that activity, which
\* the channel makes unique per turn (here: the number of the turn)
GetConversationReference(turn) ==
    [activityId |-> Len(heap) + 1, user |-> turn.fromId,
     conversation |-> turn.conversation, channelId |-> turn.channelId]

Turns == [fromId : Users \cup {NoId},
          conversation : Convs \cup {NoConv},
          channelId : Channels]

\* variant: createdAt is taken from the clock on every call
NewUserContext_freshCreatedAt(turn) ==
    [userId |-> turn.fromId,
     conversationReference |-> GetConversationReference(turn),
     channelId |-> turn.channelId,
     conversationId |-> turn.conversation,
     lastUpdated |-> now,
     createdAt |-> now,
     tokenStatus |-> NoStatus,
     lastTokenRetrieved |-> Undefined,
     lastTokenAttempt |-> Undefined]

\* the object literal built by storeUserContext; tokenStatus,
\* lastTokenRetrieved and lastTokenAttempt are not among its properties
NewUserContext(turn) ==
    [userId |-> turn.fromId,
     conversationReference |-> GetConversationReference(turn),
     channelId |-> turn.channelId,
     conversationId |-> turn.conversation,
     lastUpdated |-> now,
     createdAt |-> IF userContextMap[turn.fromId] # NoObj
                   THEN heap[userContextMap[turn.fromId]].createdAt
                   ELSE now,
     tokenStatus |-> NoStatus,
     lastTokenRetrieved |-> Undefined,
     lastTokenAttempt |-> Undefined]

\* the key under which storeUserContext files the context
StoreKey(turn) == turn.fromId

\* variant: the body of storeUserContext is not wrapped in try/catch
StoreOutcome_noCatch(turn) ==
    IF turn.fromId = NoId THEN "returned"
    ELSE IF turn.conversation = NoConv THEN "threw"
    ELSE "stored"

\* how storeUserContext ends: no from.id -> return; a missing
\* conversation makes context.activity.conversation.id throw inside the try,
\* which the catch logs and swallows; otherwise the context is stored
StoreOutcome(turn) ==
    IF turn.fromId = NoId THEN "returned"
    ELSE IF turn.conversation = NoConv THEN "caught"
    ELSE "stored"

\* storeUserContext(context)
storeUserContext(turn) ==
    /\ IF StoreOutcome(turn) = "stored"
       THEN /\ Len(heap) < MaxStores
            /\ heap' = Append(heap, NewUserContext(turn))
            /\ userContextMap' = [userContextMap EXCEPT ![StoreKey(turn)] = Len(heap) + 1]
       ELSE UNCHANGED <<heap, userContextMap>>
    /\ UNCHANGED <<now, caps, calls, ncalls, schedVars, sideVars>>

\* onMessage awaits storeUserContext on every message
StoreUserContext ==
    \E turn \in Turns : storeUserContext(turn) /\ UNCHANGED storeLog

\* the same step with its outcome observed
NoStore == [outcome |-> "none"]
ObservedStoreUserContext ==
    \E turn \in Turns :
        /\ storeUserContext(turn)
        /\ storeLog' = [turn |-> turn, nth |-> Len(heap) + 1,
                        outcome |-> StoreOutcome(turn)]

\* getUserContext(userId): null without a stored context, else a new record
\* of its fields with tokenStatus || 'unknown'
Null == [null |-> TRUE]

\* variant: tokenStatus is copied as it is
getUserContext_rawStatus(userId) ==
    IF userContextMap[userId] = NoObj THEN Null
    ELSE LET context == heap[userContextMap[userId]] IN
         [userId |-> context.userId,
          channelId |-> context.channelId,
          conversationId |-> context.conversationId,
          lastUpdated |-> context.lastUpdated,
          createdAt |-> context.createdAt,
          hasConversationReference |-> TRUE,
          tokenStatus |-> context.tokenStatus,
          lastTokenRetrieved |-> context.lastTokenRetrieved,
          lastTokenAttempt |-> context.lastTokenAttempt]

getUserContext(userId) ==
    IF userContextMap[userId] = NoObj THEN Null
    ELSE LET context == heap[userContextMap[userId]] IN
         [userId |-> context.userId,
          channelId |-> context.channelId,
          conversationId |-> context.conversationId,
          lastUpdated |-> context.lastUpdated,
          createdAt |-> context.createdAt,
          hasConversationReference |-> TRUE,
          tokenStatus |-> IF context.tokenStatus = NoStatus
                          THEN "unknown" ELSE context.tokenStatus,
          lastTokenRetrieved |-> context.lastTokenRetrieved,
          lastTokenAttempt |-> context.lastTokenAttempt]

\* ------------------------------------------------------- getTokenForUser
\* results handed to the caller
NoToken == <<"token", NoId>>
NoResult == [success |-> FALSE, error |-> "none"]
NoContextFailure ==
    [success |-> FALSE, error |-> "No conversation context found",
     message |-> "User needs to interact with the bot first"]
UnavailableFailure ==
    [success |-> FALSE, error |-> "Token not available",
     message |-> "User needs to authenticate first"]
RetrievalFailure ==
    [success |-> FALSE, error |-> "Token retrieval failed"]

\* !userContext?.conversationReference
NoConversationReference(u) == userContextMap[u] = NoObj

\* external calls at which the session callback is suspended
Suspending == {"A_signOut", "A_getUserToken", "U_signOut", "U_getUserToken", "C_getToken"}

Last(s) == s[Len(s)]

\* "Method 3": if (!userTokenClient && adapter.createConnectorClient); a
\* throw of createConnectorClient and a client without userToken both fall
\* out of the block
Method3(createThrows) ==
    IF ~caps.userTokenClient /\ caps.createConnectorClient
    THEN IF ~createThrows /\ caps.connectorUserToken
         THEN <<"C_create", "C_getToken">>
         ELSE <<"C_create">>
    ELSE <<>>

\* "Method 2": if (userTokenClient); signOutUser is awaited outside any try
Method2(forceRefresh, createThrows) ==
    IF caps.userTokenClient
    THEN IF forceRefresh THEN <<"U_signOut">> ELSE <<"U_getUserToken">>
    ELSE Method3(createThrows)

\* "Fallback": if (!userTokenClient && adapter.getUserToken)
\* variant: the adapter getter is tried whenever it exists, before the
\* UserTokenClient
Method1_adapterFirst(forceRefresh, createThrows) ==
    IF caps.getUserToken
    THEN IF forceRefresh THEN <<"A_signOut">> ELSE <<"A_getUserToken">>
    ELSE Method2(forceRefresh, createThrows)
Method1(forceRefresh, createThrows) ==
    IF ~caps.userTokenClient /\ caps.getUserToken
    THEN IF forceRefresh THEN <<"A_signOut">> ELSE <<"A_getUserToken">>
    ELSE Method2(forceRefresh, createThrows)

\* resolve({success: true, token, expiration, connectionName, channelId})
\* from the fields of the token response
SuccessResult(tokenResponse) ==
    [success |-> TRUE, token |-> tokenResponse.token,
     expiration |-> tokenResponse.expiration,
     connectionName |-> tokenResponse.connectionName,
     channelId |-> tokenResponse.channelId]

\* the token service answers for the user it is asked about
TokenResponse(user, channel) ==
    [token |-> <<"token", user>>, expiration |-> now + 1,
     connectionName |-> ConnectionName, channelId |-> channel]

\* variant: the user is taken from the most recently stored context
AskedUser_ambient(c, strategy) ==
    IF userContextMap[calls[c].userId] # NoObj
    THEN heap[Len(heap)].userId ELSE calls[c].userId
\* adapter.getUserToken is asked with the proactive turn, whose user is
\* the one of the stored reference; the two clients with userId
AskedUser(c, strategy) ==
    IF strategy = "A_getUserToken" THEN calls[c].ref.user ELSE calls[c].userId

\* a getTokenForUser invocation that has not been made
IdleCall ==
    [pc |-> "idle", userId |-> "u1", forceRefresh |-> FALSE, ctx |-> NoObj,
     ref |-> [activityId |-> 0, user |-> NoId, conversation |-> NoConv,
              channelId |-> "msteams"],
     log |-> <<>>, opened |-> FALSE, openFailed |-> FALSE,
     returned |-> NoToken,
     signOutThrew |-> FALSE, result |-> NoResult]

\* the invocation c once its promise is settled with result: the locals of
\* the call (userContext, the reference, forceRefresh) are gone
Settled(c, result) ==
    [calls[c] EXCEPT !.pc = "done", !.result = result, !.ctx = NoObj,
                     !.ref = IdleCall.ref, !.forceRefresh = FALSE]

\* variant: the failure is resolved without recording the outcome
Unavailable_noRecord(c, events) ==
    /\ UNCHANGED <<heap, userContextMap>>
    /\ calls' = [calls EXCEPT ![c] =
          [Settled(c, UnavailableFailure) EXCEPT !.log = @ \o events]]

\* userContext.tokenStatus = 'unavailable'; userContext.lastTokenAttempt =
\* new Date(); this.userContextMap.set(userId, userContext); resolve(...)
Unavailable(c, events) ==
    /\ heap' = [heap EXCEPT ![calls[c].ctx].tokenStatus = "unavailable",
                            ![calls[c].ctx].lastTokenAttempt = now]
    /\ userContextMap' = [userContextMap EXCEPT ![calls[c].userId] = calls[c].ctx]
    /\ calls' = [calls EXCEPT ![c] =
          [Settled(c, UnavailableFailure) EXCEPT !.log = @ \o events]]

\* variant: the captured context is updated but not put back in the map
Succeed_noMapSet(c, tokenResponse, result) ==
    /\ heap' = [heap EXCEPT ![calls[c].ctx].lastTokenRetrieved = now,
                            ![calls[c].ctx].tokenStatus = "active"]
    /\ UNCHANGED userContextMap
    /\ calls' = [calls EXCEPT ![c] =
          [Settled(c, result) EXCEPT !.returned = tokenResponse.token]]
\* userContext.lastTokenRetrieved = new Date(); userContext.tokenStatus =
\* 'active'; this.userContextMap.set(userId, userContext); resolve(...)
Succeed(c, tokenResponse, result) ==
    /\ heap' = [heap EXCEPT ![calls[c].ctx].lastTokenRetrieved = now,
                            ![calls[c].ctx].tokenStatus = "active"]
    /\ userContextMap' = [userContextMap EXCEPT ![calls[c].userId] = calls[c].ctx]
    /\ calls' = [calls EXCEPT ![c] =
          [Settled(c, result) EXCEPT !.returned = tokenResponse.token]]

\* the outer catch of the session callback: resolve with a failure, the
\* context is not touched
Fail(c) ==
    /\ calls' = [calls EXCEPT ![c] = Settled(c, RetrievalFailure)]
    /\ UNCHANGED <<heap, userContextMap>>

\* variant: at the end of the strategies the outcome is recorded on the
\* context stored last, whoever its user is
Proceed_sharedContext(c, events) ==
    IF events # <<>> /\ Last(events) \in Suspending
    THEN /\ calls' = [calls EXCEPT ![c].pc = Last(events), ![c].log = @ \o events]
         /\ UNCHANGED <<heap, userContextMap>>
    ELSE /\ heap' = [heap EXCEPT ![Len(heap)].tokenStatus = "unavailable",
                                 ![Len(heap)].lastTokenAttempt = now]
         /\ userContextMap' = [userContextMap EXCEPT
               ![heap[Len(heap)].userId] = Len(heap)]
         /\ calls' = [calls EXCEPT ![c] =
               [Settled(c, UnavailableFailure) EXCEPT !.log = @ \o events]]

\* run the callback on to its next await, or to the end of the strategies
Proceed(c, events) ==
    IF events # <<>> /\ Last(events) \in Suspending
    THEN /\ calls' = [calls EXCEPT ![c].pc = Last(events), ![c].log = @ \o events]
         /\ UNCHANGED <<heap, userContextMap>>
    ELSE Unavailable(c, events)

\* variant: no early return, the session is opened for any userId
GetTokenForUser_noEarlyReturn(c, userId, forceRefresh) ==
    /\ calls[c].pc = "idle"
    /\ \A d \in CallIds : d < c => calls[d].pc # "idle"
    /\ ncalls < MaxCalls
    /\ calls' = [calls EXCEPT
          ![c].pc = "opening",
          ![c].userId = userId,
          ![c].forceRefresh = forceRefresh,
          ![c].ctx = userContextMap[userId],
          ![c].opened = TRUE]
    /\ ncalls' = ncalls + 1
    /\ UNCHANGED <<now, caps, heap, userContextMap, schedVars, storeLog, sideVars>>

\* getTokenForUser(userId, forceRefresh) up to its first suspension: the
\* lookup, the early return, and the call of continueConversationAsync
\* inside the Promise executor (a synchronous throw there rejects the
\* promise that the function returns without awaiting it)
GetTokenForUser(c, userId, forceRefresh) ==
    /\ calls[c].pc = "idle"
    /\ \A d \in CallIds : d < c => calls[d].pc # "idle"
    /\ ncalls < MaxCalls
    /\ IF NoConversationReference(userId)
       THEN calls' = [calls EXCEPT ![c] =
                [Settled(c, NoContextFailure) EXCEPT !.userId = userId]]
       ELSE \/ calls' = [calls EXCEPT
                  ![c].pc = "opening",
                  ![c].userId = userId,
                  ![c].forceRefresh = forceRefresh,
                  ![c].ctx = userContextMap[userId],
                  ![c].ref = heap[userContextMap[userId]].conversationReference,
                  ![c].opened = TRUE]
            \/ calls' = [calls EXCEPT ![c] =
                  [Settled(c, NoResult) EXCEPT !.pc = "rejected", !.userId = userId,
                                               !.opened = TRUE, !.openFailed = TRUE]]
    /\ ncalls' = ncalls + 1
    /\ UNCHANGED <<now, caps, heap, userContextMap, schedVars, storeLog, sideVars>>

\* continueConversationAsync rejects without running the callback: nothing
\* observes the rejection and resolve is never called
SessionOpenRejects(c) ==
    /\ calls[c].pc = "opening"
    /\ calls' = [calls EXCEPT ![c] =
          [Settled(c, NoResult) EXCEPT !.pc = "hung", !.openFailed = TRUE]]
    /\ UNCHANGED <<now, caps, heap, userContextMap, ncalls, schedVars, storeLog, sideVars>>

\* the session callback starts: probe for the UserTokenClient, then the
\* first strategy whose guard holds
SessionCallback(c) ==
    /\ calls[c].pc = "opening"
    /\ \E createThrows \in BOOLEAN :
          Proceed(c, Method1(calls[c].forceRefresh, createThrows))
    /\ UNCHANGED <<now, caps, ncalls, schedVars, storeLog, sideVars>>

\* adapter.signOutUser returned or threw: the try/catch continues either way
AdapterSignOutDone(c) ==
    /\ calls[c].pc = "A_signOut"
    /\ \E threw \in BOOLEAN :
          /\ calls' = [calls EXCEPT ![c].pc = "A_getUserToken",
                                    ![c].log = Append(@, "A_getUserToken"),
                                    ![c].signOutThrew = @ \/ threw]
          /\ UNCHANGED <<heap, userContextMap>>
    /\ UNCHANGED <<now, caps, ncalls, schedVars, storeLog, sideVars>>

\* adapter.getUserToken answered
AdapterGetUserTokenDone(c) ==
    /\ calls[c].pc = "A_getUserToken"
    /\ \E outcome \in {"token", "none", "throws"} :
          CASE outcome = "token" ->
                 LET tokenResponse == TokenResponse(AskedUser(c, "A_getUserToken"),
                                                    calls[c].ref.channelId)
                 IN Succeed(c, tokenResponse, SuccessResult(tokenResponse))
            [] outcome = "none" ->
                 \E createThrows \in BOOLEAN :
                    Proceed(c, Method2(calls[c].forceRefresh, createThrows))
            [] outcome = "throws" -> Fail(c)
    /\ UNCHANGED <<now, caps, ncalls, schedVars, storeLog, sideVars>>

\* userTokenClient.signOutUser returned or threw
ClientSignOutDone(c) ==
    /\ calls[c].pc = "U_signOut"
    /\ \E threw \in BOOLEAN :
          IF threw
          THEN /\ calls' = [calls EXCEPT ![c] =
                      [Settled(c, RetrievalFailure) EXCEPT !.signOutThrew = TRUE]]
               /\ UNCHANGED <<heap, userContextMap>>
          ELSE Proceed(c, <<"U_getUserToken">>)
    /\ UNCHANGED <<now, caps, ncalls, schedVars, storeLog, sideVars>>

\* userTokenClient.getUserToken answered
ClientGetUserTokenDone(c) ==
    /\ calls[c].pc = "U_getUserToken"
    /\ \E outcome \in {"token", "none", "throws"} :
          CASE outcome = "token" ->
                 LET tokenResponse == TokenResponse(AskedUser(c, "U_getUserToken"),
                                                    heap[calls[c].ctx].channelId)
                 IN Succeed(c, tokenResponse, SuccessResult(tokenResponse))
            [] outcome = "none" ->
                 \E createThrows \in BOOLEAN : Proceed(c, Method3(createThrows))
            [] outcome = "throws" -> Fail(c)
    /\ UNCHANGED <<now, caps, ncalls, schedVars, storeLog, sideVars>>

\* connectorClient.userToken.getToken answered; a throw is caught by the
\* inner try/catch and falls out of the block like an empty answer
ConnectorGetTokenDone(c) ==
    /\ calls[c].pc = "C_getToken"
    /\ \E outcome \in {"token", "none", "throws"} :
          IF outcome = "token"
          THEN LET tokenResponse == TokenResponse(AskedUser(c, "C_getToken"),
                                                  heap[calls[c].ctx].channelId)
               IN Succeed(c, tokenResponse,
                          [success |-> TRUE,
                           token |-> tokenResponse.token,
                           expiration |-> tokenResponse.expiration,
                           connectionName |-> ConnectionName,
                           channelId |-> heap[calls[c].ctx].channelId])
          ELSE Unavailable(c, <<>>)
    /\ UNCHANGED <<now, caps, ncalls, schedVars, storeLog, sideVars>>

\* the caller takes the result of a finished invocation
Return(c) ==
    /\ calls[c].pc = "done"
    /\ calls' = [calls EXCEPT ![c] = IdleCall]
    /\ UNCHANGED <<now, caps, heap, userContextMap, ncalls, schedVars, storeLog, sideVars>>

\* ------------------------------------- initial state and the token broker
\* `${userId}_${Date.now()}`: the id is the pair it is printed from
TaskId(userId, t) == <<userId, t>>
TaskIds == Users \X (0..MaxSchedTime)

IdleTick == [pc |-> "idle", now |-> 0, dueTasks |-> <<>>, i |-> 0]

\* the collection has no document for a userId
NoDoc == [absent |-> TRUE]

\* the ContextStorage operations that can be in flight together
OpIds == {1, 2}

\* a ContextStorage operation that has not been called
IdleOp == [pc |-> "idle", op |-> "none", userId |-> "u1",
           data |-> [userId |-> NoId], existed |-> FALSE,
           result |-> "none", driverFailed |-> FALSE, duplicateKey |-> FALSE]

\* the dialog stack of the conversation is empty and nothing was sent
NoDialog == [pc |-> "empty", sent |-> <<>>, graph |-> <<>>,
             signedIn |-> FALSE, confirmed |-> FALSE, runs |-> 0]

\* no HTTP request is being handled
NoRequest == [pc |-> "idle", handler |-> "none", userId |-> "",
              settled |-> [status |-> "none"], response |-> [status |-> 0]]

\* getUserProfile / validateUserToken has not been called
NoInvocation == [pc |-> "idle", op |-> "none", userId |-> "",
                 graph |-> <<>>, result |-> [success |-> FALSE]]

\* no message has been dispatched
NoTurn == [bot |-> "none"]

\* no batch request has arrived
IdleBatch == [pc |-> "idle", userIds |-> <<>>, acquisitions |-> <<>>,
              attempted |-> 0, response |-> [status |-> 0]]

Capabilities == [userTokenClient : BOOLEAN, getUserToken : BOOLEAN,
                 createConnectorClient : BOOLEAN, connectorUserToken : BOOLEAN]

Init ==
    /\ now = 0
    /\ caps \in {k \in Capabilities : k.connectorUserToken => k.createConnectorClient}
    /\ heap = <<>>
    /\ userContextMap = [u \in Users |-> NoObj]
    /\ calls = [c \in CallIds |-> IdleCall]
    /\ ncalls = 0
    /\ storeLog = NoStore
    /\ backgroundTasks = <<>>
    /\ ticks = [k \in TickIds |-> IdleTick]
    /\ attempts = [id \in TaskIds |-> 0]
    /\ trace = [id \in TaskIds |-> <<>>]
    /\ nsched = 0
    /\ batch = IdleBatch
    /\ routed = NoTurn
    /\ isConnected = FALSE
    /\ collection = [u \in Users |-> NoDoc]
    /\ dbcalls = [o \in OpIds |-> IdleOp]
    /\ nops = 0
    /\ dialog = NoDialog
    /\ http = NoRequest
    /\ svc = NoInvocation

Next ==
    \/ AdvanceClock
    \/ StoreUserContext
    \/ \E c \in CallIds, u \in Users, f \in BOOLEAN : GetTokenForUser(c, u, f)
    \/ \E c \in CallIds : SessionOpenRejects(c)
    \/ \E c \in CallIds : SessionCallback(c)
    \/ \E c \in CallIds : AdapterSignOutDone(c)
    \/ \E c \in CallIds : AdapterGetUserTokenDone(c)
    \/ \E c \in CallIds : ClientSignOutDone(c)
    \/ \E c \in CallIds : ClientGetUserTokenDone(c)
    \/ \E c \in CallIds : ConnectorGetTokenDone(c)
    \/ \E c \in CallIds : Return(c)

Spec == Init /\ [][Next]_vars

\* the context store alone, with the outcome of every call observed
StoreNext ==
    \/ AdvanceClock
    \/ ObservedStoreUserContext

StoreSpec == Init /\ [][StoreNext]_vars

\* ----------------------------------------------------- background tasks

\* Map.prototype.set on the insertion-ordered backgroundTasks: an existing
\* key keeps its place and gets the new value
MapSet(map, task) ==
    IF \E j \in 1..Len(map) : map[j].taskId = task.taskId
    THEN [j \in 1..Len(map) |-> IF map[j].taskId = task.taskId THEN task ELSE map[j]]
    ELSE Append(map, task)

\* positions of a runBackgroundTasks invocation that awaits an execution
Running == {"open", "token", "notice", "calendar", "send", "sendError"}

\* scheduleBackgroundTask(userId, conversationRef, delayMs); serial (the
\* number of the call) and duringTick (a tick was awaiting an execution at
\* the call) are history fields, the code's task has the other five
scheduleBackgroundTask(userId, conversationRef, delayMs) ==
    /\ nsched < MaxSchedules
    /\ nsched' = nsched + 1
    /\ backgroundTasks' = MapSet(backgroundTasks,
          [taskId |-> TaskId(userId, now), userId |-> userId,
           conversationRef |-> conversationRef,
           executeAt |-> now + delayMs, taskType |-> "calendarCheck",
           serial |-> nsched + 1,
           duringTick |-> \E k \in TickIds : ticks[k].pc \in Running])
    /\ UNCHANGED <<now, brokerVars, ticks, attempts, trace>>

\* handleScheduleCommand(context): the only caller, with the fixed delay
HandleScheduleCommand ==
    \E u \in Users, cv \in Convs :
        scheduleBackgroundTask(u, [user |-> u, conversation |-> cv], DelayMs)

\* variant: a task is due only after its executeAt
IsDue_strict(task, t) == task.executeAt < t
\* task.executeAt <= now
IsDue(task, t) == task.executeAt <= t

\* variant: the due tasks are not deleted
Remaining_keepAll(map, t) == map
\* what the for..of loop with backgroundTasks.delete leaves in the map
Remaining(map, t) == SelectSeq(map, LAMBDA task : ~IsDue(task, t))

\* executeBackgroundTask(task) is called: one execution attempt
Attempt(id) == [attempts EXCEPT ![id] = @ + 1]

\* the taskId that tick k is executing
Current(k) == ticks[k].dueTasks[ticks[k].i].taskId

\* the execution of the current task goes on: its trace grows
Logged(k, events) == [trace EXCEPT ![Current(k)] = @ \o events]

\* the execution of the current task is over: of an ended execution the
\* history keeps how it ended
Ended(k, status) == [trace EXCEPT ![Current(k)] = <<status>>]

\* variant: a failed execution ends the loop over dueTasks
NextTask_abortOnFailure(k, status) ==
    IF ticks[k].i < Len(ticks[k].dueTasks) /\ status # "failed"
    THEN /\ ticks' = [ticks EXCEPT ![k].i = @ + 1, ![k].pc = "open"]
         /\ attempts' = Attempt(ticks[k].dueTasks[ticks[k].i + 1].taskId)
         /\ trace' = Ended(k, status)
    ELSE /\ ticks' = [ticks EXCEPT ![k].pc = "finished"]
         /\ trace' = Ended(k, status)
         /\ UNCHANGED attempts

\* executeBackgroundTask of dueTasks[i] is over (completed, or failed with
\* the error caught and logged): the loop goes to the task after it, or
\* runBackgroundTasks ends
NextTask(k, status) ==
    IF ticks[k].i < Len(ticks[k].dueTasks)
    THEN /\ ticks' = [ticks EXCEPT ![k].i = @ + 1, ![k].pc = "open"]
         /\ attempts' = Attempt(ticks[k].dueTasks[ticks[k].i + 1].taskId)
         /\ trace' = Ended(k, status)
    ELSE /\ ticks' = [ticks EXCEPT ![k].pc = "finished"]
         /\ trace' = Ended(k, status)
         /\ UNCHANGED attempts

\* variant: a due task is deleted from the pending set when its own
\* execution starts, the first one here and the others later
RunBackgroundTasks_lazyDelete(k) ==
    /\ ticks[k].pc = "idle"
    /\ \A j \in TickIds : j < k => ticks[j].pc # "idle"
    /\ LET due == SelectSeq(backgroundTasks, LAMBDA task : IsDue(task, now))
       IN IF due = <<>>
          THEN /\ ticks' = [ticks EXCEPT ![k] =
                     [pc |-> "finished", now |-> now, dueTasks |-> due, i |-> 0]]
               /\ UNCHANGED <<backgroundTasks, attempts>>
          ELSE /\ ticks' = [ticks EXCEPT ![k] =
                     [pc |-> "open", now |-> now, dueTasks |-> due, i |-> 1]]
               /\ backgroundTasks' = SelectSeq(backgroundTasks,
                     LAMBDA task : task.taskId # due[1].taskId)
               /\ attempts' = Attempt(due[1].taskId)
    /\ UNCHANGED <<now, brokerVars, trace, nsched>>

\* runBackgroundTasks() up to its first await: partition the pending set,
\* delete the due tasks, and call executeBackgroundTask on the first one
RunBackgroundTasks(k) ==
    /\ ticks[k].pc = "idle"
    /\ \A j \in TickIds : j < k => ticks[j].pc # "idle"
    /\ LET due == SelectSeq(backgroundTasks, LAMBDA task : IsDue(task, now))
       IN /\ backgroundTasks' = Remaining(backgroundTasks, now)
          /\ IF due = <<>>
             THEN /\ ticks' = [ticks EXCEPT ![k] =
                        [pc |-> "finished", now |-> now, dueTasks |-> due, i |-> 0]]
                  /\ UNCHANGED attempts
             ELSE /\ ticks' = [ticks EXCEPT ![k] =
                        [pc |-> "open", now |-> now, dueTasks |-> due, i |-> 1]]
                  /\ attempts' = Attempt(due[1].taskId)
    /\ UNCHANGED <<now, brokerVars, trace, nsched>>

\* continueConversationAsync throws or rejects: caught and logged by
\* executeBackgroundTask
BgSessionOpenFails(k) ==
    /\ ticks[k].pc = "open"
    /\ NextTask(k, "failed")
    /\ UNCHANGED <<now, brokerVars, backgroundTasks, nsched>>

\* the proactive callback starts and awaits getValidToken
BgSessionCallback(k) ==
    /\ ticks[k].pc = "open"
    /\ ticks' = [ticks EXCEPT ![k].pc = "token"]
    /\ UNCHANGED <<now, brokerVars, backgroundTasks, attempts, trace, nsched>>

\* variant: the callback does not test the token before the calendar check
BgTokenDone_noTokenTest(k) ==
    /\ ticks[k].pc = "token"
    /\ \E outcome \in {"token", "none", "throws"} :
          /\ ticks' = [ticks EXCEPT ![k].pc = "calendar"]
          /\ trace' = Logged(k, <<outcome, "calendar">>)
    /\ UNCHANGED <<now, brokerVars, backgroundTasks, attempts, nsched>>

\* getValidToken answered: adapter.getUserToken gave a token, gave none, or
\* threw (caught, null): with a token executeCalendarCheck is called,
\* without one sendActivity is called with the 'session expired' notice
BgTokenDone(k) ==
    /\ ticks[k].pc = "token"
    /\ \E outcome \in {"token", "none", "throws"} :
          IF outcome = "token"
          THEN /\ ticks' = [ticks EXCEPT ![k].pc = "calendar"]
               /\ trace' = Logged(k, <<outcome, "calendar">>)
          ELSE /\ ticks' = [ticks EXCEPT ![k].pc = "notice"]
               /\ trace' = Logged(k, <<outcome, "notice">>)
    /\ UNCHANGED <<now, brokerVars, backgroundTasks, attempts, nsched>>

\* sendActivity of the 'session expired' notice returned, or threw out of
\* the callback to the catch of executeBackgroundTask
BgNoticeDone(k) ==
    /\ ticks[k].pc = "notice"
    /\ \E ok \in BOOLEAN : NextTask(k, IF ok THEN "completed" ELSE "failed")
    /\ UNCHANGED <<now, brokerVars, backgroundTasks, nsched>>

\* executeCalendarCheck: getTodaysEvents answered, or threw into the catch
BgCalendarDone(k) ==
    /\ ticks[k].pc = "calendar"
    /\ \E ok \in BOOLEAN :
          ticks' = [ticks EXCEPT ![k].pc = IF ok THEN "send" ELSE "sendError"]
    /\ UNCHANGED <<now, brokerVars, backgroundTasks, attempts, trace, nsched>>

\* executeCalendarCheck: sendActivity of the summary returned, or threw
\* into the catch, which sends the error text
BgSendDone(k) ==
    /\ ticks[k].pc = "send"
    /\ \E ok \in BOOLEAN :
          IF ok THEN NextTask(k, "completed")
          ELSE /\ ticks' = [ticks EXCEPT ![k].pc = "sendError"]
               /\ UNCHANGED <<attempts, trace>>
    /\ UNCHANGED <<now, brokerVars, backgroundTasks, nsched>>

\* executeCalendarCheck: sendActivity in the catch returned, or threw out of
\* the callback to the catch of executeBackgroundTask
BgSendErrorDone(k) ==
    /\ ticks[k].pc = "sendError"
    /\ \E ok \in BOOLEAN : NextTask(k, IF ok THEN "completed" ELSE "failed")
    /\ UNCHANGED <<now, brokerVars, backgroundTasks, nsched>>

SchedNext ==
    \/ SchedAdvanceClock
    \/ HandleScheduleCommand
    \/ \E k \in TickIds : RunBackgroundTasks(k)
    \/ \E k \in TickIds : BgSessionOpenFails(k)
    \/ \E k \in TickIds : BgSessionCallback(k)
    \/ \E k \in TickIds : BgTokenDone(k)
    \/ \E k \in TickIds : BgNoticeDone(k)
    \/ \E k \in TickIds : BgCalendarDone(k)
    \/ \E k \in TickIds : BgSendDone(k)
    \/ \E k \in TickIds : BgSendErrorDone(k)

\* the scheduler does not look at the token capabilities of the runtime
SchedInit == Init /\ caps = [userTokenClient |-> FALSE, getUserToken |-> TRUE,
                             createConnectorClient |-> FALSE, connectorUserToken |-> FALSE]

SchedSpec == SchedInit /\ [][SchedNext]_vars

\* ------------------------------------------------- POST /api/tokens/batch
\* req.body.userIds: an array of user ids, or something that is no array
Bodies ==
    {[isArray |-> FALSE, userIds |-> <<>>]} \cup
    {[isArray |-> TRUE, userIds |-> ids] :
        ids \in UNION {[1..n -> Users] : n \in 0..MaxRequestLen}}

\* a property of an object, undefined when the object does not have it
Field(r, f) == IF f \in DOMAIN r THEN r[f] ELSE NoStatus
JsNull == <<"null">>

\* the promise returned by getTokenForUser, as Promise.allSettled sees it
Pending == [status |-> "pending"]
Fulfilled(value) == [status |-> "fulfilled", value |-> value]
Rejected(message) == [status |-> "rejected", reason |-> [message |-> message]]
\* continueConversationAsync rejected: resolve is never called
Hung == [status |-> "hung"]

\* the ways the promise of bot.getTokenForUser(userId) settles: resolved
\* with a success or with one of the three failures, or rejected by a throw
\* of continueConversationAsync inside the executor
AcquisitionOutcomes(userId) ==
    {Fulfilled(SuccessResult(TokenResponse(userId, "msteams"))),
     Fulfilled(NoContextFailure),
     Fulfilled(UnavailableFailure),
     Fulfilled(RetrievalFailure),
     Rejected("continueConversationAsync failed")}

\* variant: only the fulfilled acquisitions are reported
TokenResults_fulfilledOnly(userIds, results) ==
    LET kept == SelectSeq(results, LAMBDA result : result.status = "fulfilled")
    IN [index \in 1..Len(kept) |->
          [userId |-> userIds[index],
           success |-> kept[index].value.success,
           token |-> IF kept[index].value.success
                     THEN kept[index].value.token ELSE JsNull,
           error |-> Field(kept[index].value, "error"),
           message |-> Field(kept[index].value, "message")]]

\* results.map((result, index) => ({userId: userIds[index], ...}))
TokenResults(userIds, results) ==
    [index \in 1..Len(results) |->
        LET result == results[index] IN
        [userId |-> userIds[index],
         success |-> result.status = "fulfilled" /\ result.value.success,
         token |-> IF result.status = "fulfilled" /\ result.value.success
                   THEN result.value.token ELSE JsNull,
         error |-> IF result.status = "fulfilled"
                   THEN Field(result.value, "error") ELSE result.reason.message,
         message |-> IF result.status = "fulfilled"
                     THEN Field(result.value, "message") ELSE "Request failed"]]

\* tokenResults.filter(r => r.success).length
SuccessCount(tokenResults) ==
    Cardinality({index \in 1..Len(tokenResults) : tokenResults[index].success})

\* the handler up to its await: the two 400 answers, or one getTokenForUser
\* call per element of userIds, in order, and Promise.allSettled of them
PostTokensBatch ==
    /\ batch.pc = "idle"
    /\ \E body \in Bodies :
          batch' =
            IF ~body.isArray \/ Len(body.userIds) = 0
            THEN [IdleBatch EXCEPT
                    !.pc = "responded", !.userIds = body.userIds,
                    !.response = [status |-> 400, success |-> FALSE,
                                  error |-> "userIds array is required"]]
            ELSE IF Len(body.userIds) > MaxUsersPerBatch
            THEN [IdleBatch EXCEPT
                    !.pc = "responded", !.userIds = body.userIds,
                    !.response = [status |-> 400, success |-> FALSE,
                                  error |-> "Maximum 50 users per batch request"]]
            ELSE [IdleBatch EXCEPT
                    !.pc = "waiting", !.userIds = body.userIds,
                    !.acquisitions = [index \in 1..Len(body.userIds) |-> Pending],
                    !.attempted = Len(body.userIds)]
    /\ UNCHANGED <<botVars, frontVars, routed, storageVars>>

\* one of the getTokenForUser promises settles
AcquisitionSettles ==
    /\ batch.pc = "waiting"
    /\ \E index \in 1..Len(batch.acquisitions) :
          /\ batch.acquisitions[index] = Pending
          /\ \E outcome \in AcquisitionOutcomes(batch.userIds[index]) :
                batch' = [batch EXCEPT !.acquisitions[index] = outcome]
    /\ UNCHANGED <<botVars, frontVars, routed, storageVars>>

\* the session of one acquisition could not be opened: its promise stays
\* pending
AcquisitionHangs ==
    /\ batch.pc = "waiting"
    /\ \E index \in 1..Len(batch.acquisitions) :
          /\ batch.acquisitions[index] = Pending
          /\ batch' = [batch EXCEPT !.acquisitions[index] = Hung]
    /\ UNCHANGED <<botVars, frontVars, routed, storageVars>>

\* Promise.allSettled resolved: res.send(200, ...)
BatchRespond ==
    /\ batch.pc = "waiting"
    /\ \A index \in 1..Len(batch.acquisitions) :
          batch.acquisitions[index].status \in {"fulfilled", "rejected"}
    /\ LET tokenResults == TokenResults(batch.userIds, batch.acquisitions)
           successCount == SuccessCount(tokenResults)
       IN batch' = [batch EXCEPT
             !.pc = "responded",
             !.response = [status |-> 200,
                           success |-> successCount > 0,
                           totalRequested |-> Len(batch.userIds),
                           successCount |-> successCount,
                           failureCount |-> Len(batch.userIds) - successCount,
                           results |-> tokenResults,
                           timestamp |-> now]]
    /\ UNCHANGED <<botVars, frontVars, routed, storageVars>>

BatchNext ==
    \/ PostTokensBatch
    \/ AcquisitionSettles
    \/ AcquisitionHangs
    \/ BatchRespond

\* the endpoint does not look at the token capabilities of the runtime
BatchInit == SchedInit

BatchSpec == BatchInit /\ [][BatchNext]_vars

\* ------------------------------------------------------------- onMessage
\* activity.text: absent, or some words in some letter case with or without
\* surrounding blanks; the empty words are the empty string
Words == {"token status", "check token", "refresh token", "validate token",
          "schedule task", "background task", "my profile", "context info",
          "hi", "calendar", "logout", "token", ""}
Messages == [hasText : {TRUE}, words : Words, upper : BOOLEAN, padded : BOOLEAN]
            \cup {[hasText |-> FALSE, words |-> "", upper |-> FALSE, padded |-> FALSE]}

\* String.prototype.toLowerCase, String.prototype.trim
ToLowerCase(text) == [text EXCEPT !.upper = FALSE]
Trim(text) == [text EXCEPT !.padded = FALSE]
Literal(words) == [hasText |-> TRUE, words |-> words, upper |-> FALSE, padded |-> FALSE]

\* !context.activity.text: no text, or the empty string
Falsy(message) ==
    ~message.hasText \/ (message.words = "" /\ ~message.padded)

\* super.onMessage: the dialog pipeline of DialogBot, run once
ToDialog == [handler |-> "none", dialogRuns |-> 1]
ToHandler(name) == [handler |-> name, dialogRuns |-> 0]

\* onMessage of the enhanced TeamsBot, after storeUserContext
EnhancedOnMessage(message) ==
    IF Falsy(message) THEN ToDialog
    ELSE LET text == Trim(ToLowerCase(message)) IN
         CASE text = Literal("token status") -> ToHandler("handleTokenStatusCommand")
           [] text = Literal("my profile") -> ToHandler("handleProfileCommand")
           [] text = Literal("context info") -> ToHandler("handleContextInfoCommand")
           [] OTHER -> ToDialog

\* onMessage of bots/teamsBot.js
SchedulerOnMessage(message) ==
    IF Falsy(message) THEN ToDialog
    ELSE LET text == Trim(ToLowerCase(message)) IN
         CASE text \in {Literal("token status"), Literal("check token")} ->
                ToHandler("handleTokenInfoCommand")
           [] text \in {Literal("refresh token"), Literal("validate token")} ->
                ToHandler("handleRefreshTokenCommand")
           [] text \in {Literal("schedule task"), Literal("background task")} ->
                ToHandler("handleScheduleCommand")
           [] OTHER -> ToDialog

\* a message turn reaches onMessage of one of the two bot classes; what the
\* handlers and storeUserContext then do is in StoreUserContext,
\* HandleScheduleCommand and the broker actions
OnMessage ==
    /\ \E message \in Messages :
          \/ routed' = [bot |-> "enhanced", message |-> message,
                        route |-> EnhancedOnMessage(message)]
          \/ routed' = [bot |-> "scheduler", message |-> message,
                        route |-> SchedulerOnMessage(message)]
    /\ UNCHANGED <<botVars, frontVars, batch, storageVars>>

RouteNext == OnMessage

RouteSpec == BatchInit /\ [][RouteNext]_vars

\* -------------------------------------------------------- ContextStorage
\* additionalData of storeUserContext, updateData of updateUserContext
AdditionalData == {[userName |-> "a"], [userName |-> "b"]}
UpdateData == {[tokenStatus |-> "active", lastTokenRetrieved |-> 0],
               [tokenStatus |-> "unavailable"],
               [userName |-> "c", lastUpdated |-> Undefined]}

\* {...a, ...b} and $set: the fields of b over those of a
Spread(a, b) ==
    [f \in DOMAIN a \cup DOMAIN b |-> IF f \in DOMAIN b THEN b[f] ELSE a[f]]

\* variant: updateOne is called with upsert: true
DbUpdateOne_upsert(userId, fields) ==
    IF collection[userId] = NoDoc
    THEN [collection EXCEPT ![userId] = Spread([userId |-> userId], fields)]
    ELSE [collection EXCEPT ![userId] = Spread(@, fields)]

\* collection.updateOne({userId}, {$set: fields}): the matched document
\* gets the fields, no document is created
DbUpdateOne(userId, fields) ==
    IF collection[userId] = NoDoc
    THEN collection
    ELSE [collection EXCEPT ![userId] = Spread(@, fields)]

\* an operation that is over: its locals are gone
Over(o, result) ==
    [IdleOp EXCEPT !.pc = "done", !.op = dbcalls[o].op,
                   !.userId = dbcalls[o].userId, !.result = result]

\* the guards of an operation slot
FreeOp(o) ==
    /\ dbcalls[o].pc = "idle"
    /\ \A d \in OpIds : d < o => dbcalls[d].pc # "idle"
    /\ nops < MaxOps

\* variant: the operation does not look at isConnected
Guard_missing(started) == started

\* if (!this.isConnected) throw new Error('MongoDB not connected'), at the
\* head of every data operation: the call ends there, or goes on as started
Guard(started) ==
    IF ~isConnected
    THEN [IdleOp EXCEPT !.pc = "done", !.op = started.op,
                        !.userId = started.userId, !.result = "threw"]
    ELSE started

\* the answers of the driver: a closed client only fails
DriverAnswers == IF isConnected THEN BOOLEAN ELSE {FALSE}

\* initialize(): connect and create the unique index, or throw
Initialize ==
    /\ ~isConnected
    /\ \E ok \in BOOLEAN : isConnected' = ok
    /\ UNCHANGED <<botVars, frontVars, batch, routed, collection, dbcalls, nops>>

\* storeUserContext(userId, conversationReference, additionalData) up to
\* its first await: the connection guard, contextData, findOne is called
StorageStoreUserContext(o) ==
    /\ FreeOp(o)
    /\ \E userId \in Users, conv \in Convs, additionalData \in AdditionalData :
          dbcalls' = [dbcalls EXCEPT ![o] =
             Guard([IdleOp EXCEPT
                     !.pc = "findOne", !.op = "store", !.userId = userId,
                     !.data = Spread(Spread([userId |-> userId,
                                             conversationReference |-> conv],
                                            additionalData),
                                     [lastUpdated |-> now])])]
    /\ nops' = nops + 1
    /\ UNCHANGED <<botVars, frontVars, batch, routed, isConnected, collection>>

\* findOne answered (or threw: caught, false): updateOne or insertOne is
\* called, the latter with createdAt = the now of the call
StorageFindOneDone(o) ==
    /\ dbcalls[o].pc = "findOne"
    /\ \E ok \in DriverAnswers :
          dbcalls' = [dbcalls EXCEPT ![o] =
             IF ~ok THEN [Over(o, "false") EXCEPT !.driverFailed = TRUE]
             ELSE IF collection[dbcalls[o].userId] # NoDoc
             THEN [@ EXCEPT !.pc = "updateOne", !.existed = TRUE]
             ELSE [@ EXCEPT !.pc = "insertOne",
                            !.data = Spread(@, [createdAt |-> @.lastUpdated])]]
    /\ UNCHANGED <<botVars, frontVars, batch, routed, isConnected, collection, nops>>

\* updateOne of storeUserContext answered, or threw
StorageUpdateOneDone(o) ==
    /\ dbcalls[o].pc = "updateOne"
    /\ \E ok \in DriverAnswers :
          IF ok
          THEN /\ collection' = DbUpdateOne(dbcalls[o].userId, dbcalls[o].data)
               /\ dbcalls' = [dbcalls EXCEPT ![o] =
                     [Over(o, "true") EXCEPT !.existed = TRUE]]
          ELSE /\ UNCHANGED collection
               /\ dbcalls' = [dbcalls EXCEPT ![o] =
                     [Over(o, "false") EXCEPT !.driverFailed = TRUE, !.existed = TRUE]]
    /\ UNCHANGED <<botVars, frontVars, batch, routed, isConnected, nops>>

\* insertOne answered: inserted, or rejected by the unique index on userId
\* (caught, false), or the driver threw
StorageInsertOneDone(o) ==
    /\ dbcalls[o].pc = "insertOne"
    /\ \E ok \in DriverAnswers :
          IF ~ok
          THEN /\ UNCHANGED collection
               /\ dbcalls' = [dbcalls EXCEPT ![o] =
                     [Over(o, "false") EXCEPT !.driverFailed = TRUE]]
          ELSE IF collection[dbcalls[o].userId] # NoDoc
          THEN /\ UNCHANGED collection
               /\ dbcalls' = [dbcalls EXCEPT ![o] =
                     [Over(o, "false") EXCEPT !.duplicateKey = TRUE]]
          ELSE /\ collection' = [collection EXCEPT ![dbcalls[o].userId] = dbcalls[o].data]
               /\ dbcalls' = [dbcalls EXCEPT ![o] = Over(o, "true")]
    /\ UNCHANGED <<botVars, frontVars, batch, routed, isConnected, nops>>

\* updateUserContext(userId, updateData) up to its await: the connection
\* guard, then updateOne is called with {...updateData, lastUpdated: new
\* Date()}
StorageUpdateUserContext(o) ==
    /\ FreeOp(o)
    /\ \E userId \in Users, updateData \in UpdateData :
          dbcalls' = [dbcalls EXCEPT ![o] =
             Guard([IdleOp EXCEPT
                     !.pc = "update", !.op = "update", !.userId = userId,
                     !.data = Spread(updateData, [lastUpdated |-> now])])]
    /\ nops' = nops + 1
    /\ UNCHANGED <<botVars, frontVars, batch, routed, isConnected, collection>>

\* updateOne of updateUserContext answered (return matchedCount > 0), or
\* threw (caught, false)
StorageUpdateDone(o) ==
    /\ dbcalls[o].pc = "update"
    /\ \E ok \in DriverAnswers :
          IF ok
          THEN /\ collection' = DbUpdateOne(dbcalls[o].userId, dbcalls[o].data)
               /\ dbcalls' = [dbcalls EXCEPT ![o] =
                     [Over(o, IF collection[dbcalls[o].userId] # NoDoc
                              THEN "true" ELSE "false")
                        EXCEPT !.existed = collection[dbcalls[o].userId] # NoDoc]]
          ELSE /\ UNCHANGED collection
               /\ dbcalls' = [dbcalls EXCEPT ![o] =
                     [Over(o, "false") EXCEPT !.driverFailed = TRUE]]
    /\ UNCHANGED <<botVars, frontVars, batch, routed, isConnected, nops>>

\* getUserContext(userId) up to its await: the guard, findOne is called
StorageGetUserContext(o) ==
    /\ FreeOp(o)
    /\ \E userId \in Users :
          dbcalls' = [dbcalls EXCEPT ![o] =
             Guard([IdleOp EXCEPT !.pc = "get", !.op = "get", !.userId = userId])]
    /\ nops' = nops + 1
    /\ UNCHANGED <<botVars, frontVars, batch, routed, isConnected, collection>>

\* findOne of getUserContext answered (the document or null), or threw
\* (caught, null)
StorageGetDone(o) ==
    /\ dbcalls[o].pc = "get"
    /\ \E ok \in DriverAnswers :
          dbcalls' = [dbcalls EXCEPT ![o] =
             IF ~ok THEN [Over(o, "null") EXCEPT !.driverFailed = TRUE]
             ELSE IF collection[dbcalls[o].userId] # NoDoc
             THEN [Over(o, "document") EXCEPT !.existed = TRUE]
             ELSE Over(o, "null")]
    /\ UNCHANGED <<botVars, frontVars, batch, routed, isConnected, collection, nops>>

\* removeUserContext(userId) up to its await: the guard, deleteOne is called
StorageRemoveUserContext(o) ==
    /\ FreeOp(o)
    /\ \E userId \in Users :
          dbcalls' = [dbcalls EXCEPT ![o] =
             Guard([IdleOp EXCEPT !.pc = "remove", !.op = "remove", !.userId = userId])]
    /\ nops' = nops + 1
    /\ UNCHANGED <<botVars, frontVars, batch, routed, isConnected, collection>>

\* deleteOne answered (return deletedCount > 0), or threw (caught, false)
StorageRemoveDone(o) ==
    /\ dbcalls[o].pc = "remove"
    /\ \E ok \in DriverAnswers :
          IF ok
          THEN /\ collection' = [collection EXCEPT ![dbcalls[o].userId] = NoDoc]
               /\ dbcalls' = [dbcalls EXCEPT ![o] =
                     [Over(o, IF collection[dbcalls[o].userId] # NoDoc
                              THEN "true" ELSE "false")
                        EXCEPT !.existed = collection[dbcalls[o].userId] # NoDoc]]
          ELSE /\ UNCHANGED collection
               /\ dbcalls' = [dbcalls EXCEPT ![o] =
                     [Over(o, "false") EXCEPT !.driverFailed = TRUE]]
    /\ UNCHANGED <<botVars, frontVars, batch, routed, isConnected, nops>>

\* getAllUserContexts(limit) up to its await: the guard, find is called
StorageGetAllUserContexts(o) ==
    /\ FreeOp(o)
    /\ dbcalls' = [dbcalls EXCEPT ![o] =
          Guard([IdleOp EXCEPT !.pc = "getAll", !.op = "getAll"])]
    /\ nops' = nops + 1
    /\ UNCHANGED <<botVars, frontVars, batch, routed, isConnected, collection>>

\* find().limit().toArray() answered (the array of projections), or threw
\* (caught, the empty array)
StorageGetAllDone(o) ==
    /\ dbcalls[o].pc = "getAll"
    /\ \E ok \in DriverAnswers :
          dbcalls' = [dbcalls EXCEPT ![o] =
             IF ok THEN Over(o, "contexts")
             ELSE [Over(o, "[]") EXCEPT !.driverFailed = TRUE]]
    /\ UNCHANGED <<botVars, frontVars, batch, routed, isConnected, collection, nops>>

\* close() up to its await: client.close() is called (this.client is set
\* by initialize as soon as it has run)
StorageClose(o) ==
    /\ FreeOp(o)
    /\ isConnected
    /\ dbcalls' = [dbcalls EXCEPT ![o] =
          [IdleOp EXCEPT !.pc = "closing", !.op = "close"]]
    /\ nops' = nops + 1
    /\ UNCHANGED <<botVars, frontVars, batch, routed, isConnected, collection>>

\* client.close() returned: isConnected = false; or it threw and close()
\* throws with isConnected unchanged
StorageCloseDone(o) ==
    /\ dbcalls[o].pc = "closing"
    /\ \E ok \in BOOLEAN :
          /\ isConnected' = (IF ok THEN FALSE ELSE isConnected)
          /\ dbcalls' = [dbcalls EXCEPT ![o] =
                IF ok THEN Over(o, "closed")
                ELSE [Over(o, "threw") EXCEPT !.driverFailed = TRUE]]
    /\ UNCHANGED <<botVars, frontVars, batch, routed, collection, nops>>

\* the caller takes the result of a finished operation
StorageReturn(o) ==
    /\ dbcalls[o].pc = "done"
    /\ dbcalls' = [dbcalls EXCEPT ![o] = IdleOp]
    /\ UNCHANGED <<botVars, frontVars, batch, routed, isConnected, collection, nops>>

StorageNext ==
    \/ AdvanceClock
    \/ Initialize
    \/ \E o \in OpIds : StorageStoreUserContext(o)
    \/ \E o \in OpIds : StorageFindOneDone(o)
    \/ \E o \in OpIds : StorageUpdateOneDone(o)
    \/ \E o \in OpIds : StorageInsertOneDone(o)
    \/ \E o \in OpIds : StorageUpdateUserContext(o)
    \/ \E o \in OpIds : StorageUpdateDone(o)
    \/ \E o \in OpIds : StorageGetUserContext(o)
    \/ \E o \in OpIds : StorageGetDone(o)
    \/ \E o \in OpIds : StorageRemoveUserContext(o)
    \/ \E o \in OpIds : StorageRemoveDone(o)
    \/ \E o \in OpIds : StorageGetAllUserContexts(o)
    \/ \E o \in OpIds : StorageGetAllDone(o)
    \/ \E o \in OpIds : StorageClose(o)
    \/ \E o \in OpIds : StorageCloseDone(o)
    \/ \E o \in OpIds : StorageReturn(o)

StorageSpec == BatchInit /\ [][StorageNext]_vars

\* ------------------------------------------------------------ main dialog
\* what a prompt hands to the next waterfall step: the OAuthPrompt a token
\* response or nothing (sign-in failed, or the 300000 ms timeout passed),
\* the ConfirmPrompt true or false
SignedIn == [token |-> "tok"]
PromptResults == {SignedIn, Null}
HasToken(tokenResponse) == tokenResponse # Null /\ tokenResponse.token # ""

\* context.sendActivity(message)
Say(d, message) == [d EXCEPT !.sent = Append(@, message)]

\* a call of the SimpleGraphClient is made and awaited
Call(d, method) == [d EXCEPT !.graph = Append(@, method), !.pc = method]

\* stepContext.prompt(CONFIRM_PROMPT, ...) at the end of loginStep
ConfirmPrompt(d) == [Say(d, "Would you like to view your access token?")
                        EXCEPT !.pc = "confirm"]

\* the catch of loginStep: one message, then the confirm prompt
Issue(d) == ConfirmPrompt(Say(d, "there was an issue accessing your calendar"))

\* run(): a message arrives while no dialog is active; the waterfall begins
\* and promptStep begins the OAuthPrompt
Run ==
    /\ dialog.pc \in {"empty", "ended"}
    /\ dialog.runs < MaxRuns
    /\ dialog' = [NoDialog EXCEPT !.pc = "signIn", !.sent = <<"Please Sign In">>,
                                  !.runs = dialog.runs + 1]
    /\ UNCHANGED <<botVars, batch, routed, storageVars, http, svc>>

\* variant: loginStep goes on to the directory without testing the token
LoginStep_noTokenTest(tokenResponse) ==
    Call([dialog EXCEPT !.signedIn = HasToken(tokenResponse)], "getMe")

\* loginStep(stepContext) up to its first directory call
LoginStep(tokenResponse) ==
    IF ~HasToken(tokenResponse)
    THEN [Say(dialog, "Login was not successful, please try again.")
             EXCEPT !.pc = "ended"]
    ELSE Call([dialog EXCEPT !.signedIn = TRUE], "getMe")

\* the OAuthPrompt of promptStep ends, with a token or without
SignInEnds ==
    /\ dialog.pc = "signIn"
    /\ \E tokenResponse \in PromptResults : dialog' = LoginStep(tokenResponse)
    /\ UNCHANGED <<botVars, batch, routed, storageVars, http, svc>>

\* client.getMe() answers (an object, or nothing so that me.displayName
\* throws) or throws
GetMeDone ==
    /\ dialog.pc = "getMe"
    /\ \E outcome \in {"me", "null", "throws"} :
          dialog' = IF outcome = "me"
                    THEN Call(Say(dialog, "Welcome"), "getTodaysEvents")
                    ELSE Issue(dialog)
    /\ UNCHANGED <<botVars, batch, routed, storageVars, http, svc>>

\* client.getTodaysEvents() answers or throws
GetTodaysEventsDone ==
    /\ dialog.pc = "getTodaysEvents"
    /\ \E outcome \in {"events", "none", "throws"} :
          dialog' = CASE outcome = "events" ->
                           Call(Say(dialog, "Your calendar for today"), "getCalendarEvents")
                      [] outcome = "none" ->
                           Call(Say(dialog, "No events scheduled for today"), "getCalendarEvents")
                      [] OTHER -> Issue(dialog)
    /\ UNCHANGED <<botVars, batch, routed, storageVars, http, svc>>

\* client.getCalendarEvents() answers or throws
GetCalendarEventsDone ==
    /\ dialog.pc = "getCalendarEvents"
    /\ \E outcome \in {"events", "none", "throws"} :
          dialog' = CASE outcome = "events" ->
                           Call(Say(dialog, "Your upcoming events"), "getPhotoAsync")
                      [] outcome = "none" -> Call(dialog, "getPhotoAsync")
                      [] OTHER -> Issue(dialog)
    /\ UNCHANGED <<botVars, batch, routed, storageVars, http, svc>>

\* variant: a photo failure is reported like the other failures
PhotoStep_reportFailure(photo) ==
    IF photo = "photo"
    THEN ConfirmPrompt(Say(dialog, "Your Profile Picture"))
    ELSE Issue(dialog)

\* the inner try of loginStep: the photo card, or nothing
PhotoStep(photo) ==
    IF photo = "photo"
    THEN ConfirmPrompt(Say(dialog, "Your Profile Picture"))
    ELSE ConfirmPrompt(dialog)

\* client.getPhotoAsync(token) answers or throws
GetPhotoDone ==
    /\ dialog.pc = "getPhotoAsync"
    /\ \E photo \in {"photo", "throws"} : dialog' = PhotoStep(photo)
    /\ UNCHANGED <<botVars, batch, routed, storageVars, http, svc>>

\* variant: ensureOAuth begins the sign-in prompt whatever the answer
EnsureOAuth_ignoreAnswer(result) ==
    [Say(dialog, "Thank you.") EXCEPT !.pc = "signInAgain", !.confirmed = result]

\* ensureOAuth(stepContext)
EnsureOAuth(result) ==
    IF result
    THEN [Say(dialog, "Thank you.") EXCEPT !.pc = "signInAgain", !.confirmed = TRUE]
    ELSE [Say(dialog, "Thank you.") EXCEPT !.pc = "ended"]

\* the user answers the confirm prompt
ConfirmAnswered ==
    /\ dialog.pc = "confirm"
    /\ \E result \in BOOLEAN : dialog' = EnsureOAuth(result)
    /\ UNCHANGED <<botVars, batch, routed, storageVars, http, svc>>

\* displayToken(stepContext)
DisplayToken(tokenResponse) ==
    IF HasToken(tokenResponse)
    THEN [Say(dialog, "Token Information") EXCEPT !.pc = "ended"]
    ELSE [Say(dialog, "No token information available.") EXCEPT !.pc = "ended"]

\* the OAuthPrompt of ensureOAuth ends, with a token or without
SignInAgainEnds ==
    /\ dialog.pc = "signInAgain"
    /\ \E tokenResponse \in PromptResults : dialog' = DisplayToken(tokenResponse)
    /\ UNCHANGED <<botVars, batch, routed, storageVars, http, svc>>

DialogNext ==
    \/ Run
    \/ SignInEnds
    \/ GetMeDone
    \/ GetTodaysEventsDone
    \/ GetCalendarEventsDone
    \/ GetPhotoDone
    \/ ConfirmAnswered
    \/ SignInAgainEnds

DialogSpec == BatchInit /\ [][DialogNext]_vars

\* the OAuthPrompt does not wait for ever: it ends within its timeout
DialogFairSpec ==
    DialogSpec /\ WF_vars(SignInEnds) /\ WF_vars(SignInAgainEnds)

\* --------------------------------------- getUserProfile, validateUserToken
\* variant: the directory client is built and asked whatever the token
\* result is
AfterToken_noSuccessTest(tokenResult) ==
    [svc EXCEPT !.pc = "getMe", !.graph = <<"new SimpleGraphClient", "getMe">>,
                !.result = tokenResult]

\* the lines after 'await this.getTokenForUser(userId)' up to the next
\* await or return: the failure of the acquisition is handed on, or the
\* directory client is built and getMe called (result keeps tokenResult)
AfterToken(tokenResult) ==
    IF ~tokenResult.success
    THEN [svc EXCEPT
            !.pc = "done",
            !.result = IF svc.op = "getUserProfile"
                       THEN [success |-> FALSE, error |-> tokenResult.error,
                             message |-> Field(tokenResult, "message")]
                       ELSE [valid |-> FALSE, reason |-> tokenResult.error,
                             message |-> Field(tokenResult, "message")]]
    ELSE [svc EXCEPT !.pc = "getMe",
                     !.graph = <<"new SimpleGraphClient", "getMe">>,
                     !.result = tokenResult]

\* the catch blocks of the two functions
Caught(message) ==
    [svc EXCEPT
       !.pc = "done",
       !.result = IF svc.op = "getUserProfile"
                  THEN [success |-> FALSE, error |-> "Profile retrieval failed",
                        message |-> message]
                  ELSE [valid |-> FALSE, reason |-> "Token validation failed",
                        error |-> message]]

\* getUserProfile(userId) or validateUserToken(userId) is called and
\* awaits getTokenForUser(userId)
Invoke(op, userId) ==
    [NoInvocation EXCEPT !.pc = "token", !.op = op, !.userId = userId]

\* the 'my profile' and 'token status' commands call the two functions
BotInvokes ==
    /\ svc.pc = "idle"
    /\ http.pc = "idle"
    /\ \E op \in {"getUserProfile", "validateUserToken"}, userId \in Users :
          svc' = Invoke(op, userId)
    /\ UNCHANGED <<botVars, batch, routed, storageVars, dialog, http>>

\* the promise of getTokenForUser settles
SvcTokenSettles ==
    /\ svc.pc = "token"
    /\ \E outcome \in AcquisitionOutcomes(svc.userId) :
          svc' = IF outcome.status = "fulfilled"
                 THEN AfterToken(outcome.value)
                 ELSE Caught(outcome.reason.message)
    /\ UNCHANGED <<botVars, batch, routed, storageVars, dialog, http>>

\* the session of the acquisition could not be opened: its promise stays
\* pending
SvcTokenHangs ==
    /\ svc.pc = "token"
    /\ svc' = [svc EXCEPT !.pc = "hung"]
    /\ UNCHANGED <<botVars, batch, routed, storageVars, dialog, http>>

\* client.getMe() answers or throws
SvcGetMeDone ==
    /\ svc.pc = "getMe"
    /\ \E ok \in BOOLEAN :
          svc' = IF ~ok THEN Caught("getMe failed")
                 ELSE IF svc.op = "getUserProfile"
                 THEN [svc EXCEPT !.pc = "done",
                          !.result = [success |-> TRUE,
                                      profile |-> [id |-> svc.userId]]]
                 ELSE [svc EXCEPT !.pc = "done",
                          !.result = [valid |-> TRUE,
                                      tokenLength |-> Len(svc.result.token),
                                      expiration |-> svc.result.expiration,
                                      message |-> "Token is valid and working"]]
    /\ UNCHANGED <<botVars, batch, routed, storageVars, dialog, http>>

\* the command handler takes the result
SvcReturn ==
    /\ svc.pc = "done"
    /\ http.pc = "idle"
    /\ svc' = NoInvocation
    /\ UNCHANGED <<botVars, batch, routed, storageVars, dialog, http>>

\* ---------------------------------------------------- single-user handlers
Handlers == {"token", "refresh", "profile", "context", "validate"}

\* res.send(status, body)
Send(status, body) ==
    [http EXCEPT !.pc = "responded",
                 !.response = [status |-> status, body |-> body]]

\* variant: the failure result is answered like a success
TokenReply_failureAs200(settled) ==
    IF settled.status = "rejected"
    THEN Send(500, [success |-> FALSE, error |-> "Internal server error",
                    message |-> settled.reason.message])
    ELSE Send(200, [success |-> TRUE, userId |-> http.userId,
                    token |-> Field(settled.value, "token"),
                    message |-> "Token retrieved successfully"])

\* GET /api/token/:userId and POST /api/token/:userId/refresh after the
\* await of bot.getTokenForUser
TokenReply(settled) ==
    IF settled.status = "rejected"
    THEN Send(500, [success |-> FALSE,
                    error |-> IF http.handler = "token"
                              THEN "Internal server error" ELSE "Token refresh failed",
                    message |-> settled.reason.message])
    ELSE IF settled.value.success
    THEN Send(200, IF http.handler = "token"
                   THEN [success |-> TRUE, userId |-> http.userId,
                         token |-> settled.value.token,
                         expiration |-> settled.value.expiration,
                         connectionName |-> settled.value.connectionName,
                         channelId |-> settled.value.channelId,
                         message |-> "Token retrieved successfully",
                         tokenLength |-> Len(settled.value.token)]
                   ELSE [success |-> TRUE,
                         token |-> settled.value.token,
                         expiration |-> settled.value.expiration,
                         message |-> "Token refreshed successfully",
                         tokenLength |-> Len(settled.value.token)])
    ELSE Send(404, IF http.handler = "token"
                   THEN [success |-> FALSE, userId |-> http.userId,
                         error |-> settled.value.error,
                         message |-> Field(settled.value, "message"),
                         details |-> Field(settled.value, "details")]
                   ELSE [success |-> FALSE,
                         error |-> settled.value.error,
                         message |-> Field(settled.value, "message"),
                         details |-> Field(settled.value, "details")])

\* GET /api/user/:userId/profile and GET /api/token/:userId/validate after
\* the await of bot.getUserProfile / bot.validateUserToken
SvcReply(result) ==
    IF http.handler = "profile"
    THEN IF result.success
         THEN Send(200, [success |-> TRUE, profile |-> result.profile])
         ELSE Send(404, [success |-> FALSE, error |-> result.error,
                         message |-> result.message])
    ELSE Send(IF result.valid THEN 200 ELSE 404,
              [success |-> result.valid, valid |-> result.valid,
               reason |-> Field(result, "reason"),
               message |-> Field(result, "message"),
               tokenLength |-> Field(result, "tokenLength"),
               expiration |-> Field(result, "expiration")])

\* GET /api/user/:userId/context: bot.getUserContext is synchronous
ContextReply(userContext) ==
    IF userContext # Null
    THEN Send(200, [success |-> TRUE, context |-> userContext])
    ELSE Send(404, [success |-> FALSE, error |-> "User context not found",
                    message |-> "No context stored for this user ID"])

\* a request arrives: the handler runs up to its await, or answers (the
\* token and context handlers answer 400 to an empty userId)
HandleRequest ==
    /\ http.pc = "idle"
    /\ svc.pc = "idle"
    /\ \E handler \in Handlers, userId \in Users \cup {""} :
          LET request == [NoRequest EXCEPT !.handler = handler, !.userId = userId]
          IN  CASE handler \in {"token", "context"} /\ userId = "" ->
                     /\ http' = [request EXCEPT
                           !.pc = "responded",
                           !.response = [status |-> 400,
                                         body |-> [success |-> FALSE,
                                                   error |-> "User ID is required"]]]
                     /\ UNCHANGED svc
                [] handler = "context" /\ userId # "" ->
                     /\ http' = [request EXCEPT
                           !.pc = "responded",
                           !.settled = Fulfilled(getUserContext(userId)),
                           !.response = ContextReply(getUserContext(userId)).response]
                     /\ UNCHANGED svc
                [] handler \in {"token", "refresh"} /\ userId \in Users ->
                     /\ http' = [request EXCEPT !.pc = "awaiting", !.settled = Pending]
                     /\ UNCHANGED svc
                [] handler \in {"profile", "validate"} /\ userId \in Users ->
                     /\ http' = [request EXCEPT !.pc = "awaiting", !.settled = Pending]
                     /\ svc' = Invoke(IF handler = "profile" THEN "getUserProfile"
                                      ELSE "validateUserToken", userId)
                [] OTHER -> FALSE
    /\ UNCHANGED <<botVars, batch, routed, storageVars, dialog>>

\* the promise of bot.getTokenForUser settles and the handler answers
HttpTokenSettles ==
    /\ http.pc = "awaiting"
    /\ http.handler \in {"token", "refresh"}
    /\ \E outcome \in AcquisitionOutcomes(http.userId) :
          http' = [TokenReply(outcome) EXCEPT !.settled = outcome]
    /\ UNCHANGED <<botVars, batch, routed, storageVars, dialog, svc>>

\* the session of the acquisition could not be opened: the request is
\* never answered
HttpTokenHangs ==
    /\ http.pc = "awaiting"
    /\ http.handler \in {"token", "refresh"}
    /\ http' = [http EXCEPT !.pc = "hung", !.settled = Hung]
    /\ UNCHANGED <<botVars, batch, routed, storageVars, dialog, svc>>

\* bot.getUserProfile / bot.validateUserToken returned and the handler
\* answers
HttpSvcReturns ==
    /\ http.pc = "awaiting"
    /\ http.handler \in {"profile", "validate"}
    /\ svc.pc = "done"
    /\ http' = [SvcReply(svc.result) EXCEPT !.settled = Fulfilled(svc.result)]
    /\ svc' = NoInvocation
    /\ UNCHANGED <<botVars, batch, routed, storageVars, dialog>>

\* the response is on its way; the server takes the next request
HttpDone ==
    /\ http.pc = "responded"
    /\ http' = NoRequest
    /\ UNCHANGED <<botVars, batch, routed, storageVars, dialog, svc>>

ApiNext ==
    \/ StoreUserContext
    \/ BotInvokes
    \/ SvcTokenSettles
    \/ SvcTokenHangs
    \/ SvcGetMeDone
    \/ SvcReturn
    \/ HandleRequest
    \/ HttpTokenSettles
    \/ HttpTokenHangs
    \/ HttpSvcReturns
    \/ HttpDone

ApiSpec == BatchInit /\ [][ApiNext]_vars

\* ================================================================ claims
Range(s) == {s[j] : j \in 1..Len(s)}
Finishes(c) == calls[c].pc # "done" /\ calls'[c].pc = "done"
Stored(u) == heap[userContextMap[u]]
StoredNext(u) == heap'[userContextMap'[u]]

\* C1: getTokenForUser for a user without a stored context (or without a
\* conversationReference in it) returns a failure in the same step: no
\* proactive session is opened, no strategy is invoked, and the user
\* context map and the stored contexts are unchanged.
C1_NoContextFailsImmediately ==
    [][\A c \in CallIds :
          (calls[c].pc = "idle" /\ calls'[c].pc # "idle"
              /\ userContextMap[calls'[c].userId] = NoObj)
          => /\ calls'[c].pc = "done"
             /\ calls'[c].result = NoContextFailure
             /\ ~calls'[c].opened
             /\ calls'[c].log = <<>>
             /\ UNCHANGED <<userContextMap, heap>>]_vars

C1_Witness ==
    \E c \in CallIds :
        /\ calls[c].pc = "done" /\ calls[c].result = NoContextFailure
        /\ userContextMap[calls[c].userId] = NoObj
        /\ \E u \in Users : userContextMap[u] # NoObj

\* C2: the 'unavailable' failure is returned only after every strategy
\* whose capability the runtime exposes (UserTokenClient, adapter
\* getUserToken, connector client) has been attempted without a token.
C2_UnavailableOnlyAfterAllStrategies ==
    \A c \in CallIds :
        (calls[c].pc = "done" /\ calls[c].result = UnavailableFailure)
        => /\ caps.userTokenClient => "U_getUserToken" \in Range(calls[c].log)
           /\ caps.getUserToken => "A_getUserToken" \in Range(calls[c].log)
           /\ caps.createConnectorClient => "C_create" \in Range(calls[c].log)

\* C3: strategies are invoked in the order UserTokenClient, adapter getter,
\* connector client: a strategy is invoked only after every higher-priority
\* strategy the runtime exposes was invoked, and once a strategy returned a
\* token the call is finished with a success carrying exactly that token,
\* that strategy being the last one invoked.
Rank(e) ==
    CASE e \in {"U_signOut", "U_getUserToken"} -> 1
      [] e \in {"A_signOut", "A_getUserToken"} -> 2
      [] e \in {"C_create", "C_getToken"} -> 3
Present(r) ==
    CASE r = 1 -> caps.userTokenClient
      [] r = 2 -> caps.getUserToken
      [] r = 3 -> caps.createConnectorClient
C3_StrictPriorityOrder ==
    \A c \in CallIds :
        LET log == calls[c].log IN
        /\ \A j \in 1..Len(log) : \A r \in 1..3 :
              (r < Rank(log[j]) /\ Present(r))
              => \E i \in 1..(j - 1) : Rank(log[i]) = r
        /\ \A i, j \in 1..Len(log) : i < j => Rank(log[i]) <= Rank(log[j])
        /\ calls[c].returned # NoToken
              => /\ calls[c].pc = "done"
                 /\ calls[c].result.success
                 /\ calls[c].result.token = calls[c].returned
                 /\ Last(log) \in {"U_getUserToken", "A_getUserToken", "C_getToken"}

C3_Witness ==
    \E c \in CallIds :
        /\ calls[c].pc = "done" /\ calls[c].result.success
        /\ calls[c].log = <<"A_getUserToken", "C_create", "C_getToken">>

\* C4: with forceRefresh, a sign-out that throws never blocks acquisition:
\* the token fetch of the same strategy is still attempted.
C4_SignOutFailureNeverBlocks ==
    \A c \in CallIds :
        (calls[c].signOutThrew /\ calls[c].pc = "done")
        => /\ "U_signOut" \in Range(calls[c].log)
                => "U_getUserToken" \in Range(calls[c].log)
           /\ "A_signOut" \in Range(calls[c].log)
                => "A_getUserToken" \in Range(calls[c].log)

\* C5: when opening the proactive session fails, getTokenForUser returns a
\* structured failure: it is finished, with a result that is not a success.
C5_SessionOpenFailureIsReturned ==
    \A c \in CallIds :
        calls[c].openFailed => calls[c].pc = "done" /\ ~calls[c].result.success

\* C6: when getTokenForUser returns a success for userId, the stored
\* context of userId has at that moment tokenStatus 'active' and
\* lastTokenRetrieved = now, and the result carries token, expiration,
\* connectionName and channelId.
C6_SuccessIsRecorded ==
    [][\A c \in CallIds :
          (Finishes(c) /\ calls'[c].result.success)
          => /\ userContextMap'[calls[c].userId] # NoObj
             /\ StoredNext(calls[c].userId).tokenStatus = "active"
             /\ StoredNext(calls[c].userId).lastTokenRetrieved = now
             /\ {"token", "expiration", "connectionName", "channelId"}
                   \subseteq DOMAIN calls'[c].result]_vars

\* a success of a call whose context object had been replaced in the map by
\* a later storeUserContext
C6_Witness ==
    \E c \in CallIds :
        /\ calls[c].pc = "done" /\ calls[c].result.success
        /\ userContextMap[calls[c].userId] < Len(heap)
        /\ heap[Len(heap)].userId = calls[c].userId
        /\ Stored(calls[c].userId).tokenStatus = "active"
        /\ Stored(calls[c].userId).lastTokenRetrieved = now

\* C7 (as stated): the 'unavailable' failure comes with tokenStatus
\* 'unavailable' and lastTokenAttempt set, and tokenStatus is never 'active'
\* when an acquisition for the user has just ended without a token.
C7_NeverActiveAfterNoToken ==
    [][\A c \in CallIds :
          (Finishes(c) /\ calls[c].opened /\ ~calls'[c].result.success)
          => /\ calls'[c].result = UnavailableFailure
                   => /\ StoredNext(calls[c].userId).tokenStatus = "unavailable"
                      /\ StoredNext(calls[c].userId).lastTokenAttempt # Undefined
             /\ StoredNext(calls[c].userId).tokenStatus # "active"]_vars

\* C7 (amended): when getTokenForUser returns the 'unavailable' failure the
\* stored context of the user has at that moment tokenStatus 'unavailable'
\* and lastTokenAttempt = now; when it returns any other failure, the map
\* and the stored contexts are left as they were.
C7_UnavailableIsRecorded ==
    [][\A c \in CallIds :
          (Finishes(c) /\ ~calls'[c].result.success)
          => IF calls'[c].result = UnavailableFailure
             THEN /\ userContextMap'[calls[c].userId] # NoObj
                  /\ StoredNext(calls[c].userId).tokenStatus = "unavailable"
                  /\ StoredNext(calls[c].userId).lastTokenAttempt = now
             ELSE UNCHANGED <<userContextMap, heap>>]_vars

\* an 'unavailable' result recorded over the 'active' of an earlier success
C7_Witness ==
    \E c \in CallIds :
        /\ calls[c].pc = "done" /\ calls[c].result = UnavailableFailure
        /\ Stored(calls[c].userId).tokenStatus = "unavailable"
        /\ Stored(calls[c].userId).lastTokenAttempt = now
        /\ Stored(calls[c].userId).lastTokenRetrieved # Undefined

\* C8: a success of getTokenForUser(u) carries a token of user u, whatever
\* other calls and stores for other users run in between.
C8_TokenBelongsToUser ==
    \A c \in CallIds :
        (calls[c].pc = "done" /\ calls[c].result.success)
        => calls[c].result.token = <<"token", calls[c].userId>>

\* two successes for two different users, the later-stored user's call
\* finishing first
C8_Witness ==
    \E c, d \in CallIds :
        /\ calls[c].pc = "done" /\ calls[c].result.success
        /\ calls[d].pc = "done" /\ calls[d].result.success
        /\ calls[c].userId # calls[d].userId
        /\ calls[c].result.token = <<"token", calls[c].userId>>
        /\ calls[d].result.token = <<"token", calls[d].userId>>

\* C9: no taskId has more than one execution attempt, whatever the ticks
\* and their overlap, and whether the executions fail or not.
C9_AtMostOnce == \A id \in TaskIds : attempts[id] <= 1

\* a tick that started while an earlier one was awaiting an execution, each
\* having claimed a task
C9_Witness ==
    \E j, k \in TickIds :
        /\ j # k
        /\ ticks[j].pc \in Running /\ ticks[k].pc \in Running
        /\ \A id \in TaskIds : attempts[id] <= 1
        /\ \E id \in TaskIds : attempts[id] = 1

\* C10: a tick at time now leaves pending exactly the tasks with executeAt >
\* now, in their order, and takes every task with executeAt <= now into its
\* due list; each task of a due list has at most one execution attempt, and
\* exactly one when the tick has finished.
TickStarts(k) == ticks[k].pc = "idle" /\ ticks'[k].pc # "idle"
C10_TickPartition ==
    /\ [][\A k \in TickIds : TickStarts(k) =>
            /\ backgroundTasks' = SelectSeq(backgroundTasks,
                                      LAMBDA task : task.executeAt > now)
            /\ ticks'[k].dueTasks = SelectSeq(backgroundTasks,
                                      LAMBDA task : task.executeAt <= now)]_vars
    /\ [](\A k \in TickIds : \A j \in 1..Len(ticks[k].dueTasks) :
            LET id == ticks[k].dueTasks[j].taskId IN
            /\ attempts[id] = (IF j <= ticks[k].i THEN 1 ELSE 0)
            /\ ticks[k].pc = "finished" => attempts[id] = 1)

C10_Witness ==
    \E k \in TickIds :
        /\ ticks[k].pc = "finished"
        /\ Len(ticks[k].dueTasks) = 2
        /\ Len(backgroundTasks) = 1
        /\ backgroundTasks[1].executeAt > ticks[k].now
        /\ \A j \in 1..2 : attempts[ticks[k].dueTasks[j].taskId] = 1

\* C11: the pending set and the tasks being executed or already executed are
\* disjoint at every moment, and a tick has removed every one of its due
\* tasks from the pending set before the execution of any of them starts.
PendingIds == {backgroundTasks[j].taskId : j \in 1..Len(backgroundTasks)}
ClaimedIds(k) == {ticks[k].dueTasks[j].taskId : j \in 1..Len(ticks[k].dueTasks)}
C11_PendingDisjointFromExecuted ==
    /\ [](\A id \in PendingIds :
            /\ attempts[id] = 0
            /\ \A k \in TickIds : id \notin ClaimedIds(k))
    /\ [][\A k \in TickIds : TickStarts(k) =>
            \A j \in 1..Len(ticks'[k].dueTasks) :
                \A m \in 1..Len(backgroundTasks') :
                    backgroundTasks'[m].taskId # ticks'[k].dueTasks[j].taskId]_vars

\* a tick executes the first of its two due tasks, the second has not started,
\* and another task is pending
C11_Witness ==
    \E k \in TickIds :
        /\ ticks[k].pc \in Running
        /\ Len(ticks[k].dueTasks) = 2
        /\ ticks[k].i = 1
        /\ attempts[ticks[k].dueTasks[2].taskId] = 0
        /\ PendingIds # {}
        /\ PendingIds \cap ClaimedIds(k) = {}

\* C12: every scheduleBackgroundTask call adds one task to the pending set
\* under a taskId no pending task has, also when two calls are made for the
\* same user at the same timestamp: no pending task is replaced.
C12_ScheduleAddsOneTask ==
    [][nsched' = nsched + 1 =>
         /\ Len(backgroundTasks') = Len(backgroundTasks) + 1
         /\ \A j \in 1..Len(backgroundTasks) :
                backgroundTasks'[j] = backgroundTasks[j]]_vars

\* C13: a task scheduled while a tick is in progress is not claimed by that
\* tick and is not lost: it leaves the pending set only when a later tick,
\* started at a time >= its executeAt, claims it, and no two ticks claim it.
ClaimedSerials(k) == {ticks[k].dueTasks[j].serial : j \in 1..Len(ticks[k].dueTasks)}
C13_ScheduledDuringTickIsKept ==
    /\ [][\A j \in 1..Len(backgroundTasks) :
            LET task == backgroundTasks[j] IN
            (task.duringTick /\ task \notin Range(backgroundTasks')) =>
                \E k \in TickIds :
                    /\ TickStarts(k)
                    /\ task \in Range(ticks'[k].dueTasks)
                    /\ ticks'[k].now >= task.executeAt]_vars
    /\ [][nsched' = nsched + 1 =>
            /\ ticks' = ticks
            /\ \A k \in TickIds : nsched' \notin ClaimedSerials(k)]_vars
    /\ [](\A j, k \in TickIds :
            j # k => ClaimedSerials(j) \cap ClaimedSerials(k) = {})

\* C14: when the token lookup of an execution returns nothing or throws, the
\* 'session expired' notice is sent once and the execution then ends: the
\* calendar handler is not run, and the task is not in the pending set, then
\* or later.
Count(s, e) == Cardinality({j \in 1..Len(s) : s[j] = e})
NoTokenFor(id) == trace[id] # <<>> /\ trace[id][1] \in {"none", "throws"}
C14_NoTokenSendsOneNotice ==
    /\ [](\A id \in TaskIds : NoTokenFor(id) =>
            /\ Count(trace[id], "notice") = 1
            /\ Count(trace[id], "calendar") = 0
            /\ \E k \in TickIds : ticks[k].pc = "notice" /\ Current(k) = id)
    /\ [][\A k \in TickIds : (ticks[k].pc = "notice" /\ ticks'[k] # ticks[k]) =>
            /\ trace'[Current(k)] \in {<<"completed">>, <<"failed">>}
            /\ \/ ticks'[k].pc = "finished"
               \/ ticks'[k].pc = "open" /\ ticks'[k].i = ticks[k].i + 1]_vars
    /\ [](\A id \in TaskIds : trace[id] # <<>> => id \notin PendingIds)

\* two ticks wait for the notice to be sent, one after a token lookup that
\* threw and one after a lookup that returned nothing
C14_Witness ==
    \E a, b \in TaskIds :
        /\ trace[a] = <<"throws", "notice">>
        /\ trace[b] = <<"none", "notice">>

\* C15: a failed execution is terminal and isolated: the failed task is not
\* put back in the pending set and is not attempted again, and the loop has
\* already started the due task after it (the tick ends only after its last
\* due task).
Failed(id) == trace[id] # <<>> /\ Last(trace[id]) = "failed"
C15_FailureIsTerminalAndIsolated ==
    \A k \in TickIds : \A j \in 1..Len(ticks[k].dueTasks) :
        LET id == ticks[k].dueTasks[j].taskId IN
        Failed(id) =>
            /\ id \notin PendingIds
            /\ attempts[id] = 1
            /\ j < Len(ticks[k].dueTasks) =>
                  /\ ticks[k].i > j
                  /\ attempts[ticks[k].dueTasks[j + 1].taskId] = 1
            /\ j = Len(ticks[k].dueTasks) => ticks[k].pc = "finished"

\* a finished tick whose first due task failed and whose second one completed
C15_Witness ==
    \E k \in TickIds :
        /\ ticks[k].pc = "finished"
        /\ Len(ticks[k].dueTasks) = 2
        /\ Failed(ticks[k].dueTasks[1].taskId)
        /\ Last(trace[ticks[k].dueTasks[2].taskId]) = "completed"

\* C16: the stored createdAt of a user is the time of the first
\* storeUserContext call that stored a context for that user, whatever
\* getTokenForUser calls were interleaved, and no step changes it.
FirstStore(u) ==
    heap[CHOOSE j \in 1..Len(heap) :
            /\ heap[j].userId = u
            /\ \A m \in 1..(j - 1) : heap[m].userId # u]
C16_CreatedAtIsFirstStore ==
    /\ [](\A u \in Users : userContextMap[u] # NoObj =>
            Stored(u).createdAt = FirstStore(u).lastUpdated)
    /\ [][\A u \in Users : userContextMap[u] # NoObj =>
            /\ userContextMap'[u] # NoObj
            /\ StoredNext(u).createdAt = Stored(u).createdAt]_vars

\* the user's context was stored at time 0 and again at time 1, and a
\* getTokenForUser call that had captured the first object put it back
C16_Witness ==
    \E u \in Users :
        /\ Len(heap) = 2
        /\ heap[1].userId = u /\ heap[2].userId = u
        /\ heap[1].lastUpdated = 0 /\ heap[2].lastUpdated = 1
        /\ heap[2].createdAt = 0
        /\ userContextMap[u] = 1
        /\ heap[1].tokenStatus = "active"

\* C17: in every step, lastUpdated, lastTokenRetrieved and lastTokenAttempt
\* of each user's stored context do not decrease and, once set, are not
\* cleared (an unset timestamp is below every time).
C17_TimestampsNeverDecrease ==
    [][\A u \in Users : userContextMap[u] # NoObj =>
         /\ userContextMap'[u] # NoObj
         /\ StoredNext(u).lastUpdated >= Stored(u).lastUpdated
         /\ StoredNext(u).lastTokenRetrieved >= Stored(u).lastTokenRetrieved
         /\ StoredNext(u).lastTokenAttempt >= Stored(u).lastTokenAttempt]_vars

\* C18: a storeUserContext step for a user with a stored context leaves the
\* user's tokenStatus, lastTokenRetrieved and lastTokenAttempt as they were,
\* and with the same conversation and channel as stored it changes nothing
\* but lastUpdated (and the activity the reference was taken from).
StoresFor(u) == Len(heap') = Len(heap) + 1 /\ heap'[Len(heap')].userId = u
Routing(context) ==
    [context EXCEPT !.lastUpdated = 0, !.conversationReference.activityId = 0]
C18_StoreKeepsTokenFields ==
    [][\A u \in Users : (StoresFor(u) /\ userContextMap[u] # NoObj) =>
         /\ StoredNext(u).tokenStatus = Stored(u).tokenStatus
         /\ StoredNext(u).lastTokenRetrieved = Stored(u).lastTokenRetrieved
         /\ StoredNext(u).lastTokenAttempt = Stored(u).lastTokenAttempt
         /\ (/\ StoredNext(u).conversationId = Stored(u).conversationId
             /\ StoredNext(u).channelId = Stored(u).channelId)
                => Routing(StoredNext(u)) = Routing(Stored(u))]_vars

\* C19: no storeUserContext call throws, and a call for a turn without
\* from.id or without a conversation leaves the user context map and the
\* stored contexts unchanged.
C19_StoreNeverThrows ==
    /\ [](storeLog.outcome # "threw")
    /\ [][(/\ storeLog' # storeLog
           /\ \/ storeLog'.turn.fromId = NoId
              \/ storeLog'.turn.conversation = NoConv) =>
            /\ storeLog'.outcome \in {"returned", "caught"}
            /\ userContextMap' = userContextMap
            /\ heap' = heap]_vars

\* a turn with from.id and no conversation was handled after a context had
\* been stored
C19_Witness ==
    /\ storeLog.outcome = "caught"
    /\ storeLog.turn.fromId \in Users
    /\ storeLog.turn.conversation = NoConv
    /\ \E u \in Users : userContextMap[u] # NoObj

\* C20: getUserContext returns null exactly for the users without a stored
\* context; otherwise its tokenStatus is 'unknown', 'active' or
\* 'unavailable', and 'unknown' exactly when the stored context records no
\* acquisition outcome (neither lastTokenRetrieved nor lastTokenAttempt).
C20_GetUserContextLookup ==
    \A u \in Users :
        /\ getUserContext(u) = Null <=> userContextMap[u] = NoObj
        /\ getUserContext(u) # Null =>
              /\ getUserContext(u).tokenStatus \in {"unknown", "active", "unavailable"}
              /\ getUserContext(u).tokenStatus = "unknown" <=>
                    /\ Stored(u).lastTokenRetrieved = Undefined
                    /\ Stored(u).lastTokenAttempt = Undefined

\* one user has no context, the other has a recorded outcome and was stored
\* anew since: the lookup says null for the first, 'unknown' for the second
C20_Witness ==
    \E u, v \in Users :
        /\ getUserContext(u) = Null
        /\ getUserContext(v) # Null
        /\ getUserContext(v).tokenStatus = "unknown"
        /\ \E j \in 1..Len(heap) :
              heap[j].userId = v /\ heap[j].tokenStatus \in {"active", "unavailable"}

\* C21: a batch request with N user ids, 1 <= N <= the cap, that is answered
\* is answered with 200 and a results array of length N whose i-th entry is
\* for the i-th userId and is a success exactly when the i-th acquisition
\* resolved with a success; successCount counts the successful entries and
\* successCount + failureCount = N.
C21_BatchResultsMatchInput ==
    (batch.pc = "responded" /\ batch.attempted > 0) =>
        LET N == Len(batch.userIds)
            r == batch.response
        IN /\ r.status = 200
           /\ Len(r.results) = N
           /\ \A i \in 1..N :
                 /\ r.results[i].userId = batch.userIds[i]
                 /\ r.results[i].success <=>
                       /\ batch.acquisitions[i].status = "fulfilled"
                       /\ batch.acquisitions[i].value.success
           /\ r.successCount = Cardinality({i \in 1..N : r.results[i].success})
           /\ r.successCount + r.failureCount = N

\* a request for u1, u2, u1 was answered after a success, a failure result
\* and a rejection
C21_Witness ==
    /\ batch.pc = "responded"
    /\ batch.userIds = <<"u1", "u2", "u1">>
    /\ batch.acquisitions[1].status = "fulfilled"
    /\ batch.acquisitions[1].value.success
    /\ batch.acquisitions[2] = Fulfilled(UnavailableFailure)
    /\ batch.acquisitions[3].status = "rejected"
    /\ batch.response.successCount = 1
    /\ batch.response.failureCount = 2

\* C22: a request that is no array, is empty or is longer than the cap is
\* answered 400 without any getTokenForUser call; any other request is
\* answered once none of its acquisitions can make a step any more, however
\* each of them ended (the answer is the 200 of BatchRespond).
C22_FailureNeverAbortsBatch ==
    /\ (batch.pc = "responded" /\ batch.response.status = 400) <=>
          (batch.pc # "idle" /\ batch.attempted = 0)
    /\ batch.pc = "waiting" =>
          \/ \E i \in 1..Len(batch.acquisitions) : batch.acquisitions[i] = Pending
          \/ ENABLED BatchRespond

\* C23: a message whose lower-cased, trimmed text is 'token status',
\* 'my profile', 'context info', 'schedule task' or 'background task' runs
\* the handler of that command and not the dialog pipeline; any other text,
\* and a message without text, runs the dialog pipeline once and no handler.
RecognizedCommands ==
    {"token status", "my profile", "context info", "schedule task", "background task"}
HandlersOf(words) ==
    CASE words = "token status" -> {"handleTokenStatusCommand", "handleTokenInfoCommand"}
      [] words = "my profile" -> {"handleProfileCommand"}
      [] words = "context info" -> {"handleContextInfoCommand"}
      [] words \in {"schedule task", "background task"} -> {"handleScheduleCommand"}
C23_RoutingByText ==
    routed # NoTurn =>
        IF routed.message.hasText /\ routed.message.words \in RecognizedCommands
        THEN /\ routed.route.handler \in HandlersOf(routed.message.words)
             /\ routed.route.dialogRuns = 0
        ELSE /\ routed.route.handler = "none"
             /\ routed.route.dialogRuns = 1

\* C24: a getTokenForUser call for user u works on a context of u only: the
\* context and the reference it captured are u's, and none of its steps
\* changes the map entry or any context object of another user; when it
\* finishes, the outcome recorded for u is the one of its own result,
\* whatever a concurrent call for another user did in between.
UserOf(c) == IF calls[c].pc = "idle" THEN calls'[c].userId ELSE calls[c].userId
C24_OtherUsersUntouched ==
    /\ [](\A c \in CallIds : calls[c].ctx # NoObj =>
            /\ heap[calls[c].ctx].userId = calls[c].userId
            /\ calls[c].ref.user = calls[c].userId)
    /\ [][\A c \in CallIds : calls'[c] # calls[c] =>
            /\ \A v \in Users \ {UserOf(c)} : userContextMap'[v] = userContextMap[v]
            /\ \A j \in 1..Len(heap) : heap[j].userId # UserOf(c) => heap'[j] = heap[j]
            /\ Finishes(c) =>
                  /\ calls'[c].result.success =>
                        /\ StoredNext(UserOf(c)).tokenStatus = "active"
                        /\ calls'[c].result.token = <<"token", UserOf(c)>>
                  /\ calls'[c].result = UnavailableFailure =>
                        StoredNext(UserOf(c)).tokenStatus = "unavailable"]_vars

\* the first call is still suspended in its session; the second call, for
\* the other user, was started and has finished meanwhile with its outcome
\* recorded, and the first user's context has no outcome yet
C24_Witness ==
    /\ calls[1].pc \in Suspending
    /\ calls[2].pc = "done"
    /\ calls[2].userId # calls[1].userId
    /\ calls[2].result = UnavailableFailure
    /\ Stored(calls[2].userId).tokenStatus = "unavailable"
    /\ Stored(calls[1].userId).tokenStatus = NoStatus

\* the step on which operation o of kind op gets its last answer
OpFinishes(o, op) ==
    /\ dbcalls[o].op = op
    /\ dbcalls[o].pc \notin {"idle", "done"}
    /\ dbcalls'[o].pc = "done"

\* C25: on a connected storage, updateUserContext for a userId without a
\* document creates no document and returns false; for a userId with a
\* document, when the database applies the update, the document gets the
\* given fields and a lastUpdated of the call, keeps its other fields, and
\* the call returns true; in both cases no other user's document changes.
C25_UpdateOfUnknownUserIsNoOp ==
    [][\A o \in OpIds : OpFinishes(o, "update") =>
          LET u == dbcalls[o].userId
              given == dbcalls[o].data
              doc == collection[u]
          IN  /\ \A v \in Users \ {u} : collection'[v] = collection[v]
              /\ doc = NoDoc =>
                    /\ collection'[u] = NoDoc
                    /\ dbcalls'[o].result = "false"
              /\ doc # NoDoc /\ ~dbcalls'[o].driverFailed =>
                    /\ dbcalls'[o].result = "true"
                    /\ DOMAIN collection'[u] = DOMAIN doc \cup DOMAIN given
                    /\ \A f \in DOMAIN given \ {"lastUpdated"} :
                          collection'[u][f] = given[f]
                    /\ \A f \in DOMAIN doc \ DOMAIN given :
                          collection'[u][f] = doc[f]
                    /\ collection'[u].lastUpdated \in 0..now]_vars

\* an update of an unknown user has returned false beside another user's
\* document, and an update of a known user has returned true
C25_Witness ==
    \E o1, o2 \in OpIds :
        /\ dbcalls[o1].pc = "done" /\ dbcalls[o1].op = "update"
        /\ dbcalls[o1].result = "false" /\ ~dbcalls[o1].driverFailed
        /\ collection[dbcalls[o1].userId] = NoDoc
        /\ dbcalls[o2].pc = "done" /\ dbcalls[o2].op = "update"
        /\ dbcalls[o2].result = "true"
        /\ collection[dbcalls[o2].userId] # NoDoc
        /\ "tokenStatus" \in DOMAIN collection[dbcalls[o2].userId]

\* C26: every storeUserContext call that the driver does not fail, two
\* overlapping calls for the same userId included, returns true and leaves
\* the document of that userId carrying its data (the write that completes
\* last wins).
C26_LastWriteOverwrites ==
    [][\A o \in OpIds :
          OpFinishes(o, "store") /\ ~dbcalls'[o].driverFailed =>
             /\ dbcalls'[o].result = "true"
             /\ collection'[dbcalls[o].userId] # NoDoc
             /\ \A f \in DOMAIN dbcalls[o].data \ {"createdAt"} :
                   collection'[dbcalls[o].userId][f] = dbcalls[o].data[f]]_vars

\* an answer of the transport or of a strategy call that invocation c is
\* waiting for arrives
Answered(c) ==
    \/ SessionOpenRejects(c)
    \/ SessionCallback(c)
    \/ AdapterSignOutDone(c)
    \/ AdapterGetUserTokenDone(c)
    \/ ClientSignOutDone(c)
    \/ ClientGetUserTokenDone(c)
    \/ ConnectorGetTokenDone(c)

\* C27: a getTokenForUser call whose promise has not settled is always
\* waiting for an answer of the transport or of a strategy call, so that it
\* completes once these answer: no outcome of the session open or of the
\* session callback leaves its promise pending with nothing to wait for.
C27_PendingCallAwaitsAnAnswer ==
    \A c \in CallIds :
        calls[c].pc \notin {"idle", "done", "rejected"} => ENABLED Answered(c)

\* the sign-out calls and the token fetches of the three strategies
SignOuts == {"U_signOut", "A_signOut"}
Fetches == {"U_getUserToken", "A_getUserToken", "C_getToken"}

\* C28: in a getTokenForUser call with forceRefresh = false no sign-out call
\* is made, and in a call with forceRefresh = true every token fetch, by
\* the primary client, the adapter-level getter or the connector client,
\* comes after a sign-out call for the user.
C28_InvalidationTiedToForceRefresh ==
    \A c \in CallIds :
        calls[c].pc \in Suspending =>
            LET log == calls[c].log
            IN  IF calls[c].forceRefresh
                THEN \A i \in DOMAIN log :
                        log[i] \in Fetches =>
                            \E j \in 1..(i - 1) : log[j] \in SignOuts
                ELSE \A i \in DOMAIN log : log[i] \notin SignOuts

\* the context object built by the most recent storeUserContext call for u
LatestStore(u) ==
    heap[CHOOSE i \in DOMAIN heap :
            /\ heap[i].userId = u
            /\ \A j \in DOMAIN heap : heap[j].userId = u => j <= i]

\* C29: the stored conversationReference of a user, and the channelId,
\* conversationId and lastUpdated stored with it, are always those captured
\* by the most recent storeUserContext call for that user, whatever
\* getTokenForUser calls finish afterwards.
C29_LatestReferenceStays ==
    \A u \in Users :
        userContextMap[u] # NoObj =>
            /\ Stored(u).conversationReference = LatestStore(u).conversationReference
            /\ Stored(u).channelId = LatestStore(u).channelId
            /\ Stored(u).conversationId = LatestStore(u).conversationId
            /\ Stored(u).lastUpdated = LatestStore(u).lastUpdated

\* the scheduled tasks (by the serial number of their schedule call) in the
\* pending set
PendingSerials == {backgroundTasks[j].serial : j \in 1..Len(backgroundTasks)}

\* C30: every scheduled task stays in the pending set until a tick removes
\* it as due, and every task a tick removed as due has had its execution
\* attempt by the time the tick is over; so, with ticks that keep firing
\* and session calls that return or fail, every scheduled task reaches
\* Completed or Failed.
C30_EveryTaskIsExecuted ==
    /\ [][\A n \in PendingSerials \ PendingSerials' :
            \E k \in TickIds :
                /\ TickStarts(k)
                /\ \E j \in 1..Len(ticks'[k].dueTasks) :
                      ticks'[k].dueTasks[j].serial = n]_vars
    /\ [](\A k \in TickIds :
            ticks[k].pc = "finished" =>
                \A j \in 1..Len(ticks[k].dueTasks) :
                    attempts[ticks[k].dueTasks[j].taskId] >= 1)

\* C31: at no time are two task executions in progress at once, within one
\* tick and across ticks: at most one tick is inside the execution of a due
\* task.
C31_OneExecutionAtATime ==
    \A j, k \in TickIds :
        (ticks[j].pc \in Running /\ ticks[k].pc \in Running) => j = k

\* C32: the pending set changes only by a scheduleBackgroundTask call
\* adding one task and by a tick removing the due tasks; a pending task is
\* never altered, a tick executes the tasks as they were in the pending
\* set (userId, conversationRef, executeAt, taskType), and a task a tick
\* has taken never comes back to the pending set.
C32_PendingSetFrame ==
    /\ [][backgroundTasks' # backgroundTasks =>
            \/ /\ nsched' = nsched + 1
               /\ SubSeq(backgroundTasks', 1, Len(backgroundTasks)) = backgroundTasks
               /\ Len(backgroundTasks') = Len(backgroundTasks) + 1
            \/ \E k \in TickIds :
                  /\ TickStarts(k)
                  /\ backgroundTasks' = SelectSeq(backgroundTasks,
                                            LAMBDA task : task.executeAt > now)]_vars
    /\ [][\A k \in TickIds :
            IF TickStarts(k)
            THEN Range(ticks'[k].dueTasks) \subseteq Range(backgroundTasks)
            ELSE ticks'[k].dueTasks = ticks[k].dueTasks]_vars
    /\ [](\A k \in TickIds : PendingSerials \cap ClaimedSerials(k) = {})

DirectoryCalls == {"getMe", "getTodaysEvents", "getCalendarEvents", "getPhotoAsync"}
IssueMessage == "there was an issue accessing your calendar"
ConfirmQuestion == "Would you like to view your access token?"

\* C34: in the login step the answer of the photo fetch adds the photo card
\* or nothing, never an error message, and leads to the confirm prompt;
\* after a successful sign-in every outcome of the profile, calendar and
\* photo calls leads to the confirm prompt, asked once, with exactly one
\* error message if a profile or calendar call failed and none otherwise.
C34_PhotoFailureIsSilent ==
    /\ [][dialog.pc = "getPhotoAsync" /\ dialog'.pc # "getPhotoAsync" =>
            /\ dialog'.pc = "confirm"
            /\ dialog'.sent \in
                  {Append(dialog.sent, ConfirmQuestion),
                   Append(Append(dialog.sent, "Your Profile Picture"), ConfirmQuestion)}
            /\ dialog'.graph = dialog.graph]_vars
    /\ [][dialog.pc \in DirectoryCalls =>
            dialog'.pc \in DirectoryCalls \cup {"confirm"}]_vars
    /\ [](dialog.signedIn /\ dialog.pc \notin DirectoryCalls =>
            /\ Count(dialog.sent, ConfirmQuestion) = 1
            /\ Count(dialog.sent, IssueMessage) =
                  (IF "getPhotoAsync" \in Range(dialog.graph) THEN 0 ELSE 1))

\* the confirm prompt is reached after a failed photo fetch
C34_Witness ==
    /\ dialog.pc = "confirm"
    /\ "getPhotoAsync" \in Range(dialog.graph)
    /\ "Your Profile Picture" \notin Range(dialog.sent)
    /\ "Your upcoming events" \in Range(dialog.sent)

\* C35: the token is shown only by displayToken after the user answered yes
\* to the confirm prompt and the second sign-in prompt ended; after the
\* answer no the dialog has ended with 'Thank you.' as its last message and
\* no token shown; and the dialog is never stuck: until it has ended, one
\* of its steps can be taken.
C35_TokenOnlyAfterYes ==
    /\ [][Count(dialog'.sent, "Token Information") > Count(dialog.sent, "Token Information") =>
            /\ dialog.pc = "signInAgain"
            /\ dialog.confirmed
            /\ dialog'.sent = Append(dialog.sent, "Token Information")
            /\ dialog'.pc = "ended"]_vars
    /\ [][dialog.pc = "confirm" /\ dialog'.pc # "confirm" =>
            /\ dialog'.sent = Append(dialog.sent, "Thank you.")
            /\ dialog'.pc = (IF dialog'.confirmed THEN "signInAgain" ELSE "ended")]_vars
    /\ [](dialog.pc = "ended" /\ dialog.signedIn /\ ~dialog.confirmed =>
            /\ dialog.sent[Len(dialog.sent)] = "Thank you."
            /\ "Token Information" \notin Range(dialog.sent))
    /\ [](dialog.pc \notin {"empty", "ended"} => ENABLED DialogNext)

\* the user answered no and the dialog ended
C35_Witness ==
    /\ dialog.pc = "ended"
    /\ dialog.signedIn
    /\ ~dialog.confirmed
    /\ "Thank you." \in Range(dialog.sent)

\* the failure results of getTokenForUser
FailureResults == {NoContextFailure, UnavailableFailure, RetrievalFailure}

\* C37: getUserProfile and validateUserToken end only by returning a
\* result; the directory client is built and asked only after a successful
\* token acquisition; a failed acquisition is returned with its error and
\* message (a rejected one as a structured failure) without any directory
\* call, and a failed directory call as 'Profile retrieval failed' or
\* valid = false.
C37_NeverThrows ==
    /\ [](svc.pc \in {"idle", "token", "hung", "getMe", "done"})
    /\ [](svc.pc = "getMe" =>
            /\ svc.result.success
            /\ svc.graph = <<"new SimpleGraphClient", "getMe">>)
    /\ [][svc.pc = "token" /\ svc'.pc = "done" =>
            /\ svc'.graph = <<>>
            /\ IF svc.op = "getUserProfile"
               THEN \/ \E f \in FailureResults :
                         svc'.result = [success |-> FALSE, error |-> f.error,
                                        message |-> Field(f, "message")]
                    \/ /\ ~svc'.result.success
                       /\ svc'.result.error = "Profile retrieval failed"
               ELSE \/ \E f \in FailureResults :
                         svc'.result = [valid |-> FALSE, reason |-> f.error,
                                        message |-> Field(f, "message")]
                    \/ /\ ~svc'.result.valid
                       /\ svc'.result.reason = "Token validation failed"]_vars
    /\ [][svc.pc = "getMe" /\ svc'.pc # "getMe" =>
            /\ svc'.pc = "done"
            /\ IF svc.op = "getUserProfile"
               THEN svc'.result.success \/ svc'.result.error = "Profile retrieval failed"
               ELSE svc'.result.valid \/ svc'.result.reason = "Token validation failed"]_vars

\* getUserProfile has handed on the failure of the acquisition, no
\* directory call made
C37_Witness ==
    /\ svc.pc = "done"
    /\ svc.op = "getUserProfile"
    /\ svc.graph = <<>>
    /\ svc.result = [success |-> FALSE, error |-> UnavailableFailure.error,
                     message |-> UnavailableFailure.message]

\* the status the claim gives to a settled bot operation
Expected(settled, ok) ==
    IF settled.status = "rejected" THEN 500
    ELSE IF ok THEN 200 ELSE 404

\* C36: a single-user handler that has called its bot operation answers
\* 200 exactly when the operation reported success (or a context exists),
\* 404 when it returned a failure result (or no context is stored) and 500
\* only when it threw; and a response body has a token only with status
\* 200.
C36_StatusFollowsResult ==
    /\ http.pc = "responded" /\ http.response.status # 400 =>
          LET settled == http.settled
              status == http.response.status
          IN  CASE http.handler \in {"token", "refresh"} ->
                     status = Expected(settled, settled.status = "fulfilled"
                                                /\ settled.value.success)
                [] http.handler = "profile" ->
                     status = Expected(settled, settled.value.success)
                [] http.handler = "validate" ->
                     status = Expected(settled, settled.value.valid)
                [] http.handler = "context" ->
                     status = Expected(settled, settled.value # Null)
    /\ http.pc = "responded" =>
          /\ http.response.status \in {200, 400, 404, 500}
          /\ http.response.status = 400 => http.userId = ""
          /\ "token" \in DOMAIN http.response.body => http.response.status = 200

\* the token handler has answered 404 to a failure result, and the body
\* has no token
C36_Witness ==
    /\ http.pc = "responded"
    /\ http.handler = "token"
    /\ http.settled = Fulfilled(UnavailableFailure)
    /\ http.response.status = 404
    /\ "token" \notin DOMAIN http.response.body

\* the data operations of ContextStorage, and what each returns when the
\* database fails
DataOps == {"store", "get", "update", "remove", "getAll"}
FailureValue(op) ==
    CASE op \in {"store", "update", "remove"} -> "false"
      [] op = "get" -> "null"
      [] op = "getAll" -> "[]"

\* a data operation is called in slot o
OpCalled(o) ==
    /\ dbcalls[o].pc = "idle"
    /\ dbcalls'[o].pc # "idle"
    /\ dbcalls'[o].op \in DataOps

\* C38: a data operation called while the storage is not connected ends at
\* once with the 'MongoDB not connected' error, no database call made and
\* the collection untouched, and one called while it is connected goes on
\* to its database call; the storage is connected only from a successful
\* initialize() to a close(); a database error inside an operation is
\* returned as false, null or the empty array, never thrown, and leaves
\* isConnected as it was.
C38_NotConnectedGuard ==
    /\ [][\A o \in OpIds : OpCalled(o) =>
            IF isConnected
            THEN dbcalls'[o].pc \notin {"idle", "done"}
            ELSE /\ dbcalls'[o].pc = "done"
                 /\ dbcalls'[o].result = "threw"
                 /\ collection' = collection]_vars
    /\ [][\A o \in OpIds :
            (dbcalls[o].op \in DataOps /\ dbcalls'[o].pc = "done"
                /\ dbcalls[o].pc \notin {"idle", "done"}) =>
                /\ dbcalls'[o].result # "threw"
                /\ isConnected' = isConnected
                /\ dbcalls'[o].driverFailed =>
                      /\ dbcalls'[o].result = FailureValue(dbcalls[o].op)
                      /\ collection' = collection]_vars
    /\ [][isConnected' # isConnected =>
            IF isConnected'
            THEN \A o \in OpIds : dbcalls'[o] = dbcalls[o]
            ELSE \E o \in OpIds : OpFinishes(o, "close")]_vars
    /\ [](\A o \in OpIds :
            (dbcalls[o].op \in DataOps /\ dbcalls[o].result = "threw") =>
                dbcalls[o].pc = "done" /\ ~dbcalls[o].driverFailed)

\* after a close, a removeUserContext has ended with the error, and the
\* document it named is still there
C38_Witness ==
    \E o \in OpIds :
        /\ ~isConnected
        /\ dbcalls[o].pc = "done" /\ dbcalls[o].op = "remove"
        /\ dbcalls[o].result = "threw"
        /\ collection[dbcalls[o].userId] # NoDoc

\* C39: as long as the document of a userId is not removed, its createdAt
\* is the time of the store that inserted it and never changes, and no
\* store or update lowers its lastUpdated.
C39_CreatedOnceUpdatedForward ==
    [][\A u \in Users :
          /\ (collection[u] = NoDoc /\ collection'[u] # NoDoc) =>
                /\ collection'[u].createdAt = collection'[u].lastUpdated
                /\ collection'[u].createdAt \in 0..now
          /\ (collection[u] # NoDoc /\ collection'[u] # NoDoc) =>
                /\ collection'[u].createdAt = collection[u].createdAt
                /\ collection'[u].lastUpdated >= collection[u].lastUpdated]_vars

====
